---- MODULE Spec2Model ----
(***************************************************************************)
(* A model of the concurrent download engine of the P2P-File-Transfer      *)
(* BitTorrent client: the piece ledger (core/manager.rs), the metainfo     *)
(* arithmetic (core/torrent_info.rs), the per-peer session loop            *)
(* (network/mod.rs) and the supervision loop (main.rs).                    *)
(*                                                                         *)
(* Byte counts keep their real values (BLOCK_MAX = 16384).  The contents   *)
(* of buffers and files are kept per cell of Cell bytes: every offset and  *)
(* length the environment offers is a multiple of Cell.                    *)
(***************************************************************************)
EXTENDS Integers, Sequences, FiniteSets, Bags, TLC

VARIABLES manager, mode, disk, lock, sup, sessions, call

\* call is the last call of a function applied on its own, with its arguments and
\* what it returned; it stays None while the program runs as a whole

vars == <<manager, mode, disk, lock, sup, sessions, call>>

(***************************************************************************)
(* Program constants.                                                      *)
(***************************************************************************)
BLOCK_MAX == 16384

PIPELINE_DEPTH == 5

SPAWN_CAP == 20

(***************************************************************************)
(* Bounds of the model.                                                    *)
(***************************************************************************)
\* sessions alive at once under Spec
MaxLive == 2

\* sessions alive at once under SpecCap
MaxLiveCap == 22

\* a session's downloaded counter is followed up to piece size + MaxExtra cells
MaxExtra == 1

Cell == BLOCK_MAX \div 2

\* 2^32 counted in cells: the u32 counters hold multiples of Cell
U32Cells == (65536 \div Cell) * 65536

(***************************************************************************)
(* Option<T> is a sequence of zero or one element.                         *)
(***************************************************************************)
None == <<>>

Some(x) == <<x>>

Min(a, b) == IF a < b THEN a ELSE b

\* the last call applied on its own was op
Called(op) == call # None /\ call.op = op

RECURSIVE SumSeq(_)
SumSeq(s) == IF s = <<>> THEN 0 ELSE Head(s) + SumSeq(Tail(s))

(***************************************************************************)
(* Data.  The original stream holds the value g + 1 in its cell g; 0 is a  *)
(* zero-filled cell and Corrupt a cell holding anything else.              *)
(***************************************************************************)
Zero == 0

Corrupt == 0 - 1

Orig(g) == g + 1

\* SHA-1, taken to be collision free.
Sha1(buf) == <<"sha1", buf>>

(***************************************************************************)
(* core/torrent_info.rs                                                    *)
(***************************************************************************)
total_length(t) ==
    IF t.length # None THEN t.length[1]
    ELSE IF t.files # None THEN SumSeq(t.files[1])
    ELSE 0

NumPieces(t) == Len(t.pieces)

\* the last piece is the remainder even when the remainder is 0
piece_size_plain_remainder(t, piece_index) ==
    IF piece_index = NumPieces(t) - 1 THEN total_length(t) % t.piece_length
    ELSE t.piece_length

calculate_piece_size(t, piece_index) ==
    LET piece_len == t.piece_length
        total_len == total_length(t)
        num_pieces == NumPieces(t)
    IN  IF piece_index = num_pieces - 1
        THEN LET remainder == total_len % piece_len
             IN  IF remainder = 0 THEN piece_len ELSE remainder
        ELSE piece_len

\* Ok(hash) is Some(hash), Err is None.
get_piece_hash(t, piece_index) ==
    IF piece_index + 1 > Len(t.pieces) THEN None ELSE Some(t.pieces[piece_index + 1])

(***************************************************************************)
(* The metainfos the model runs on.  The original data of piece i is the   *)
(* cells i*piece_length/Cell .. of the stream, cut at the total length.    *)
(***************************************************************************)
CeilDiv(a, b) == (a + b - 1) \div b

OrigRange(from, to) == [c \in 1..((to - from) \div Cell) |-> Orig(from \div Cell + c - 1)]

MkTorrent(piece_length, length, files) ==
    LET total == IF length # None THEN length[1] ELSE SumSeq(files[1])
        n == CeilDiv(total, piece_length)
    IN  [piece_length |-> piece_length,
         length |-> length,
         files |-> files,
         pieces |-> [i \in 1..n |->
                       Sha1(OrigRange((i - 1) * piece_length, Min(i * piece_length, total)))]]

\* two files of 3 and 2 cells, pieces of one block: sizes 16384, 16384, 8192
MultiFile == MkTorrent(BLOCK_MAX, None, Some(<<3 * Cell, 2 * Cell>>))

\* one file, one piece of 7 blocks: more than the pipeline holds
BigFile == MkTorrent(7 * BLOCK_MAX, Some(7 * BLOCK_MAX), None)

OrigPiece(t, i) ==
    OrigRange(i * t.piece_length, Min((i + 1) * t.piece_length, total_length(t)))

(***************************************************************************)
(* core/manager.rs: the file layout and the span algorithm.                *)
(***************************************************************************)
files_list(t) == IF t.files # None THEN t.files[1] ELSE <<total_length(t)>>

\* the spans with the place in the stream taken for the place in the file: the
\* start of the file is not subtracted
RECURSIVE SpansSeekInStream(_, _, _, _, _)
SpansSeekInStream(fl, k, file_global_start, piece_global_start, piece_len) ==
    IF k > Len(fl) THEN <<>>
    ELSE LET file_len == fl[k]
             file_global_end == file_global_start + file_len
             piece_global_end == piece_global_start + piece_len
             rest == SpansSeekInStream(fl, k + 1, file_global_start + file_len,
                                       piece_global_start, piece_len)
         IN  IF file_global_end > piece_global_start /\ file_global_start < piece_global_end
             THEN <<[file |-> k,
                     start_in_piece |-> IF file_global_start > piece_global_start
                                        THEN file_global_start - piece_global_start ELSE 0,
                     end_in_piece |-> IF file_global_end < piece_global_end
                                      THEN file_global_end - piece_global_start ELSE piece_len,
                     seek_pos_in_file |-> IF piece_global_start > file_global_start
                                          THEN piece_global_start ELSE 0]>>
                  \o rest
             ELSE rest

\* The spans of a piece range [piece_global_start, piece_global_start + piece_len)
\* over the files from index k on, file k starting at file_global_start.
RECURSIVE Spans(_, _, _, _, _)
Spans(fl, k, file_global_start, piece_global_start, piece_len) ==
    IF k > Len(fl) THEN <<>>
    ELSE LET file_len == fl[k]
             file_global_end == file_global_start + file_len
             piece_global_end == piece_global_start + piece_len
             rest == Spans(fl, k + 1, file_global_start + file_len, piece_global_start, piece_len)
         IN  IF file_global_end > piece_global_start /\ file_global_start < piece_global_end
             THEN <<[file |-> k,
                     start_in_piece |-> IF file_global_start > piece_global_start
                                        THEN file_global_start - piece_global_start ELSE 0,
                     end_in_piece |-> IF file_global_end < piece_global_end
                                      THEN file_global_end - piece_global_start ELSE piece_len,
                     seek_pos_in_file |-> IF piece_global_start > file_global_start
                                          THEN piece_global_start - file_global_start ELSE 0]>>
                  \o rest
             ELSE rest

\* the slice written at the start of the file: the seek is left out
WriteSpanNoSeek(d, sp, data) ==
    LET n == (sp.end_in_piece - sp.start_in_piece) \div Cell
        from == sp.start_in_piece \div Cell
    IN  [d EXCEPT ![sp.file] =
            [c \in 1..(IF Len(@) < n THEN n ELSE Len(@)) |->
                IF c <= n THEN data[from + c] ELSE @[c]]]

\* file.seek(seek_pos); file.write_all(slice): the cells of one span.  A write
\* past the end of the file extends it, the gap reading as zeros.
WriteSpan(d, sp, data) ==
    LET n == (sp.end_in_piece - sp.start_in_piece) \div Cell
        at == sp.seek_pos_in_file \div Cell
        from == sp.start_in_piece \div Cell
    IN  [d EXCEPT ![sp.file] =
            [c \in 1..(IF Len(@) < at + n THEN at + n ELSE Len(@)) |->
                IF c > at /\ c <= at + n THEN data[from + (c - at)]
                ELSE IF c <= Len(@) THEN @[c] ELSE Zero]]

\* the first k spans written, in order
RECURSIVE WriteSpans(_, _, _, _)
WriteSpans(d, spans, data, k) ==
    IF k = 0 \/ spans = <<>> THEN d
    ELSE WriteSpans(WriteSpan(d, Head(spans), data), Tail(spans), data, k - 1)

\* read_exact of one span: None when the file is short
ReadSpan(d, sp) ==
    LET n == (sp.end_in_piece - sp.start_in_piece) \div Cell
        at == sp.seek_pos_in_file \div Cell
    IN  IF at + n > Len(d[sp.file]) THEN None
        ELSE Some([c \in 1..n |-> d[sp.file][at + c]])

RECURSIVE ReadSpans(_, _, _)
ReadSpans(d, spans, buffer) ==
    IF spans = <<>> THEN Some(buffer)
    ELSE LET sp == Head(spans)
             chunk == ReadSpan(d, sp)
             start == sp.start_in_piece \div Cell
         IN  IF chunk = None THEN None
             ELSE ReadSpans(d, Tail(spans),
                     [c \in 1..Len(buffer) |->
                        IF c > start /\ c <= start + Len(chunk[1])
                        THEN chunk[1][c - start] ELSE buffer[c]])

\* the spans the loop of read_piece_from_disk visits
ReadSpansOf(t, index, piece_size) ==
    Spans(files_list(t), 1, 0, index * t.piece_length, piece_size)

\* the spans the loop of write_piece_to_disk visits
WriteSpansOf(t, index) ==
    Spans(files_list(t), 1, 0, index * t.piece_length, calculate_piece_size(t, index))

\* Ok(buffer) is Some(buffer), Err is None.
read_piece_from_disk(t, d, index, piece_size) ==
    LET spans == ReadSpansOf(t, index, piece_size)
        bytes_read == SumSeq([k \in 1..Len(spans) |->
                                spans[k].end_in_piece - spans[k].start_in_piece])
        got == ReadSpans(d, spans, [c \in 1..(piece_size \div Cell) |-> Zero])
    IN  IF got = None THEN None
        ELSE IF bytes_read = piece_size THEN got ELSE None

write_piece_to_disk(t, d, index, data) ==
    LET piece_len == calculate_piece_size(t, index)
    IN  IF Len(data) * Cell # piece_len THEN d
        ELSE LET spans == WriteSpansOf(t, index)
             IN  WriteSpans(d, spans, data, Len(spans))

(***************************************************************************)
(* core/manager.rs: the ledger.  Pieces are numbered from 0, sequences     *)
(* from 1.                                                                 *)
(***************************************************************************)
Pending == "Pending"

InProgress == "InProgress"

Complete == "Complete"

\* TorrentManager::new
NewManager(t) ==
    [torrent |-> t,
     piece_status |-> [i \in 1..(Len(t.pieces)) |-> Pending],
     downloaded_pieces |-> 0]

\* a scan that keeps the last match instead of returning at the first
PickIndexLast(m, peer_bitfield) ==
    LET ok == {i \in 0..(Len(m.piece_status) - 1) :
                 /\ m.piece_status[i + 1] = Pending
                 /\ i < Len(peer_bitfield)
                 /\ peer_bitfield[i + 1]}
    IN  IF ok = {} THEN None ELSE Some(CHOOSE i \in ok : \A j \in ok : i >= j)

\* the index pick_next_piece returns, None when the scan finds nothing
PickIndex(m, peer_bitfield) ==
    LET ok == {i \in 0..(Len(m.piece_status) - 1) :
                 /\ m.piece_status[i + 1] = Pending
                 /\ i < Len(peer_bitfield)
                 /\ peer_bitfield[i + 1]}
    IN  IF ok = {} THEN None ELSE Some(CHOOSE i \in ok : \A j \in ok : i <= j)

\* a pick that returns the index and leaves it Pending
pick_without_mark(m, peer_bitfield) == m

\* the manager after pick_next_piece
pick_next_piece(m, peer_bitfield) ==
    LET r == PickIndex(m, peer_bitfield)
    IN  IF r = None THEN m ELSE [m EXCEPT !.piece_status[r[1] + 1] = InProgress]

\* Complete set, the counter forgotten
mark_without_count(m, index) ==
    IF m.piece_status[index + 1] # Complete
    THEN [m EXCEPT !.piece_status[index + 1] = Complete]
    ELSE m

\* the counter incremented whatever the status was
mark_always_counts(m, index) ==
    [m EXCEPT !.piece_status[index + 1] = Complete,
              !.downloaded_pieces = @ + 1]

mark_piece_complete(m, index) ==
    IF m.piece_status[index + 1] # Complete
    THEN [m EXCEPT !.piece_status[index + 1] = Complete,
                   !.downloaded_pieces = @ + 1]
    ELSE m

\* a reset that leaves the piece as it is
reset_does_nothing(m, index) == m

\* Pending whatever the status was
reset_unconditional(m, index) ==
    [m EXCEPT !.piece_status[index + 1] = Pending]

reset_piece(m, index) ==
    IF m.piece_status[index + 1] # Complete
    THEN [m EXCEPT !.piece_status[index + 1] = Pending]
    ELSE m

is_complete(m) == m.downloaded_pieces = Len(m.piece_status)

(***************************************************************************)
(* core/manager.rs: verify_existing_data.                                  *)
(***************************************************************************)
\* phase 0: every file is created and extended with zeros to its length
PreAllocate(t, d) ==
    [k \in 1..Len(files_list(t)) |->
        LET length == files_list(t)[k] \div Cell
        IN  IF Len(d[k]) < length
            THEN [c \in 1..length |-> IF c <= Len(d[k]) THEN d[k][c] ELSE Zero]
            ELSE d[k]]

\* phase 1, from piece index on
RECURSIVE VerifyFrom(_, _, _)
VerifyFrom(m, d, index) ==
    IF index >= Len(m.piece_status) THEN m
    ELSE LET expected_hash == get_piece_hash(m.torrent, index)
             expected_size == calculate_piece_size(m.torrent, index)
             got == read_piece_from_disk(m.torrent, d, index, expected_size)
         IN  IF expected_hash = None \/ got = None THEN VerifyFrom(m, d, index + 1)
             ELSE IF Sha1(got[1]) = expected_hash[1]
                  THEN VerifyFrom([m EXCEPT !.piece_status[index + 1] = Complete,
                                            !.downloaded_pieces = @ + 1], d, index + 1)
                  ELSE VerifyFrom(m, d, index + 1)

\* the verification loop started at piece 1
verify_skips_first(m, d) == VerifyFrom(m, PreAllocate(m.torrent, d), 1)

verify_existing_data(m, d) == VerifyFrom(m, PreAllocate(m.torrent, d), 0)

\* phase 0 when the files in failed cannot be opened or extended: the error is
\* printed and the file stays as it is
PreAllocateExcept(t, d, failed) ==
    [k \in 1..Len(files_list(t)) |-> IF k \in failed THEN d[k] ELSE PreAllocate(t, d)[k]]

(***************************************************************************)
(* network/mod.rs: the state of one peer session.                          *)
(***************************************************************************)
\* serving is the Request being handled, uploaded the Piece messages written to
\* the socket
\* the socket; response_buf is the peer's handshake once it is read; keepalives
\* is the parity of the KeepAlives read, which tells a read whose timer was
\* started anew from the read before it
NewSession ==
    [pc |-> "connect", am_unchoked |-> FALSE, peer_has_pieces |-> <<>>, current_work |-> None,
     serving |-> None, uploaded |-> <<>>, response_buf |-> <<>>, keepalives |-> 0]

\* PeerSessionState for a piece just picked; sent is the Requests written to the
\* socket for it so far
NewWork(index, piece_len) ==
    [piece_index |-> index,
     piece_buffer |-> [c \in 1..(piece_len \div Cell) |-> Zero],
     downloaded |-> 0,
     requested |-> 0,
     piece_length |-> piece_len,
     sent |-> <<>>]

Live == BagToSet(sessions)

NumLive == BagCardinality(sessions)

Replace(s, s2) == (sessions (-) SetToBag({s})) (+) SetToBag({s2})

Remove(s) == sessions (-) SetToBag({s})

RECURSIVE Spawn(_, _)
Spawn(b, n) == IF n = 0 THEN b ELSE Spawn(b (+) SetToBag({NewSession}), n - 1)

\* requested - downloaded as u32 arithmetic gives it, in cells
InFlight(w) == ((w.requested - w.downloaded) \div Cell) % U32Cells

PipelineCells == (BLOCK_MAX * PIPELINE_DEPTH) \div Cell

Underflows(w) == w.downloaded > w.requested

\* the pipeline condition without its am_unchoked conjunct
PipelineOpenChoked(s) ==
    /\ s.current_work # None
    /\ s.current_work[1].requested < s.current_work[1].piece_length

PipelineOpen(s) ==
    /\ s.current_work # None
    /\ s.am_unchoked
    /\ s.current_work[1].requested < s.current_work[1].piece_length

\* where the loop iteration goes on after the work assignment
PipelinePc(s) ==
    IF PipelineOpen(s)
       /\ (Underflows(s.current_work[1])
           \/ InFlight(s.current_work[1]) < PipelineCells)
    THEN "pipeline" ELSE "read"

\* the iteration goes to the pipeline and the next read without asking for work
AfterMsgSkipsAssign(s) == PipelinePc(s)

\* where the loop iteration goes on after the message is processed
AfterMsg(s) ==
    IF s.am_unchoked /\ s.current_work = None THEN "assign" ELSE PipelinePc(s)

\* the loop is left with an error: the cleanup takes the lock only when a piece is held
Fail(s) ==
    IF s.current_work = None THEN Remove(s) ELSE Replace(s, [s EXCEPT !.pc = "cleanup"])

(***************************************************************************)
(* Connection and handshake.                                               *)
(***************************************************************************)
ConnectOk(s) ==
    /\ s.pc = "connect"
    /\ sessions' = Replace(s, [s EXCEPT !.pc = "handshake"])
    /\ UNCHANGED <<manager, mode, disk, lock, sup, call>>

\* connect timeout or refusal: the function returns before the loop
ConnectFail(s) ==
    /\ s.pc = "connect"
    /\ sessions' = Remove(s)
    /\ UNCHANGED <<manager, mode, disk, lock, sup, call>>

\* the peer's handshake carries the local info-hash; Interested is written
HandshakeOk(s) ==
    /\ s.pc = "handshake"
    /\ sessions' = Replace(s, [s EXCEPT !.pc = "init"])
    /\ UNCHANGED <<manager, mode, disk, lock, sup, call>>

\* an I/O error or another info-hash
HandshakeFail(s) ==
    /\ s.pc = "handshake"
    /\ sessions' = Remove(s)
    /\ UNCHANGED <<manager, mode, disk, lock, sup, call>>

\* manager.lock().await.piece_status.len()
InitState(s) ==
    /\ s.pc = "init"
    /\ ~lock
    /\ sessions' = Replace(s, [s EXCEPT !.pc = "read",
                                        !.peer_has_pieces =
                                            [i \in 1..Len(manager.piece_status) |-> FALSE]])
    /\ UNCHANGED <<manager, mode, disk, lock, sup, call>>

(***************************************************************************)
(* network/handshake.rs and the handshake of the session, step by step.    *)
(* HandshakeOk above is ReadHandshake, CheckHandshake and SendInterested   *)
(* taken at once.                                                          *)
(***************************************************************************)
\* "BitTorrent protocol"
protocol_string ==
    <<66, 105, 116, 84, 111, 114, 114, 101, 110, 116, 32,
      112, 114, 111, 116, 111, 99, 111, 108>>

Handshake(info_hash, peer_id) ==
    [protocol_string |-> protocol_string, info_hash |-> info_hash, peer_id |-> peer_id]

\* the peer id written before the info-hash
as_bytes_peer_id_first(h) ==
    <<19>> \o h.protocol_string \o <<0, 0, 0, 0, 0, 0, 0, 0>> \o h.peer_id \o h.info_hash

as_bytes(h) ==
    <<19>> \o h.protocol_string \o <<0, 0, 0, 0, 0, 0, 0, 0>> \o h.info_hash \o h.peer_id

\* the SHA-1 of the bencoded info dictionary: 20 bytes that differ between the
\* torrents of the model
calculate_info_hash(t) == [i \in 1..20 |-> (20 * NumPieces(t) + i) % 256]

\* "-RT0100-" and twelve characters of the charset, all the character c
generate_peer_id(c) == <<45, 82, 84, 48, 49, 48, 48, 45>> \o [i \in 1..12 |-> c]

\* the comparison made on bytes [48..68], the peer id
HashMatchesPeerId(response_buf, info_hash) == SubSeq(response_buf, 49, 68) = info_hash

\* &response_buf[28..48] != info_hash
HashMatches(response_buf, info_hash) == SubSeq(response_buf, 29, 48) = info_hash

\* 68 bytes a peer may answer with: the handshake of the same torrent, of
\* another torrent, one whose info-hash differs in its last byte, one that
\* carries the hash where the peer id goes, and one of another protocol with
\* reserved bits set that carries the hash
Responses(info_hash) ==
    LET peer == generate_peer_id(65)
        other == [i \in 1..20 |-> 255 - info_hash[i]]
        good == as_bytes(Handshake(info_hash, peer))
    IN  {good,
         as_bytes(Handshake(other, peer)),
         as_bytes(Handshake([info_hash EXCEPT ![20] = (@ + 1) % 256], peer)),
         as_bytes(Handshake(peer, info_hash)),
         [good EXCEPT ![2] = 98, ![26] = 16]}

\* the handshake is written and 68 bytes of answer are read
ReadHandshake(s, response) ==
    /\ s.pc = "handshake"
    /\ sessions' = Replace(s, [s EXCEPT !.pc = "check", !.response_buf = response])
    /\ UNCHANGED <<manager, mode, disk, lock, sup, call>>

CheckHandshake(s) ==
    /\ s.pc = "check"
    /\ sessions' = IF HashMatches(s.response_buf, calculate_info_hash(manager.torrent))
                   THEN Replace(s, [s EXCEPT !.pc = "interested"])
                   ELSE Remove(s)
    /\ UNCHANGED <<manager, mode, disk, lock, sup, call>>

SendInterested(s) ==
    /\ s.pc = "interested"
    /\ sessions' = Replace(s, [s EXCEPT !.pc = "init"])
    /\ UNCHANGED <<manager, mode, disk, lock, sup, call>>

\* the write of Interested fails
SendInterestedFail(s) ==
    /\ s.pc = "interested"
    /\ sessions' = Remove(s)
    /\ UNCHANGED <<manager, mode, disk, lock, sup, call>>

(***************************************************************************)
(* What the peer may send.                                                 *)
(***************************************************************************)
\* piece 0 and an index out of range
HaveIndexes == {0, Len(manager.piece_status)}

\* 0b11100000 and 0b10000001
Bitfields == {<<224>>, <<129>>}

\* the cells [begin, begin + len) of piece index as the original has them
GoodBlock(index, begin, len) ==
    [c \in 1..(len \div Cell) |-> OrigPiece(manager.torrent, index)[begin \div Cell + c]]

CorruptBlock(len) == [c \in 1..(len \div Cell) |-> Corrupt]

\* the peer answers the requests in order: the block that follows what it has sent
HonestPieces(s) ==
    IF s.current_work = None THEN {}
    ELSE LET w == s.current_work[1]
             begin == (w.downloaded \div BLOCK_MAX) * BLOCK_MAX
             len == Min(BLOCK_MAX, w.piece_length - begin)
         IN  IF begin < w.requested
             THEN {[index |-> w.piece_index, begin |-> begin,
                    block |-> GoodBlock(w.piece_index, begin, len)]}
             ELSE {}

\* more than the pipeline ever has in flight, in one block
JumboLen == (PIPELINE_DEPTH + 1) * BLOCK_MAX

\* blocks nobody asked for: half a block of the piece in work (of piece 0 when
\* there is none), right or wrong; a block past the end of the piece; a block
\* of the next index; and a block longer than the pipeline
RoguePieces(s) ==
    LET t == manager.torrent
        i == IF s.current_work = None THEN 0 ELSE s.current_work[1].piece_index
        size == calculate_piece_size(t, i)
    IN  {[index |-> i, begin |-> 0, block |-> GoodBlock(i, 0, Cell)],
         [index |-> i, begin |-> 0, block |-> CorruptBlock(Cell)],
         [index |-> i, begin |-> Cell, block |-> CorruptBlock(size)],
         [index |-> i + 1, begin |-> 0, block |-> CorruptBlock(Cell)]}
        \cup
        (IF JumboLen <= size
         THEN {[index |-> i, begin |-> 0, block |-> GoodBlock(i, 0, JumboLen)]}
         ELSE {})

\* the model follows a downloaded counter up to the piece size and MaxExtra cells
WithinCap(s, msg) ==
    \/ s.current_work = None
    \/ s.current_work[1].downloaded + Len(msg.block) * Cell
          <= s.current_work[1].piece_length + MaxExtra * Cell

PieceMsgs(s) == {msg \in HonestPieces(s) \cup RoguePieces(s) : WithinCap(s, msg)}

(***************************************************************************)
(* The message loop: one message read and processed.                       *)
(***************************************************************************)
Step(s, s2) == Replace(s, [s2 EXCEPT !.pc = AfterMsg(s2)])

\* a Choke that gives up the piece in work and returns it to the manager
RecvChokeResets(s) ==
    /\ s.pc = "read"
    /\ ~lock
    /\ manager' = IF s.current_work = None THEN manager
                  ELSE reset_piece(manager, s.current_work[1].piece_index)
    /\ sessions' = Step(s, [s EXCEPT !.am_unchoked = FALSE, !.current_work = None])
    /\ UNCHANGED <<mode, disk, lock, sup, call>>

RecvChoke(s) ==
    /\ s.pc = "read"
    /\ sessions' = Step(s, [s EXCEPT !.am_unchoked = FALSE])
    /\ UNCHANGED <<manager, mode, disk, lock, sup, call>>

RecvUnchoke(s) ==
    /\ s.pc = "read"
    /\ sessions' = Step(s, [s EXCEPT !.am_unchoked = TRUE])
    /\ UNCHANGED <<manager, mode, disk, lock, sup, call>>

\* Interested, NotInterested, Request and KeepAlive change nothing
RecvIgnored(s) ==
    /\ s.pc = "read"
    /\ sessions' = Step(s, s)
    /\ UNCHANGED <<manager, mode, disk, lock, sup, call>>

\* a KeepAlive is read before the 30 s are over: no arm of the match changes
\* anything, and the next iteration waits another 30 s
RecvKeepAlive(s) ==
    /\ s.pc = "read"
    /\ sessions' = Step(s, [s EXCEPT !.keepalives = 1 - @])
    /\ UNCHANGED <<manager, mode, disk, lock, sup, call>>

\* the index taken for a position counted from 1, with no bounds check
OnHaveOneBased(has, index) == [p \in 1..Len(has) |-> IF p = index THEN TRUE ELSE has[p]]

OnHave(has, index) ==
    IF index < Len(has) THEN [has EXCEPT ![index + 1] = TRUE] ELSE has

RecvHave(s, index) ==
    /\ s.pc = "read"
    /\ sessions' = Step(s, [s EXCEPT !.peer_has_pieces = OnHave(@, index)])
    /\ UNCHANGED <<manager, mode, disk, lock, sup, call>>

\* byte & (1 << (7 - bit)) != 0
\* the mask 1 << bit: the bits taken from the least significant end
BitSetLsbFirst(byte, bit) == (byte \div (2 ^ bit)) % 2 = 1

BitSet(byte, bit) == (byte \div (2 ^ (7 - bit))) % 2 = 1

OnBitfield(has, bitfield) ==
    [p \in 1..Len(has) |->
        LET piece_idx == p - 1
            i == piece_idx \div 8
            bit == piece_idx % 8
        IN  IF i < Len(bitfield) /\ BitSet(bitfield[i + 1], bit) THEN TRUE ELSE has[p]]

RecvBitfield(s, bitfield) ==
    /\ s.pc = "read"
    /\ sessions' = Step(s, [s EXCEPT !.peer_has_pieces = OnBitfield(@, bitfield)])
    /\ UNCHANGED <<manager, mode, disk, lock, sup, call>>

\* the bounds check alone: the index of the block is not looked at
AcceptsAnyIndex(w, msg) ==
    msg.begin + Len(msg.block) * Cell <= Len(w.piece_buffer) * Cell

\* the block is taken when it is for the piece in work and fits its buffer
Accepts(w, msg) ==
    /\ w.piece_index = msg.index
    /\ msg.begin + Len(msg.block) * Cell <= Len(w.piece_buffer) * Cell

OnBlock(w, msg) ==
    [w EXCEPT !.piece_buffer =
                  [c \in 1..Len(@) |->
                      IF c > msg.begin \div Cell /\ c <= msg.begin \div Cell + Len(msg.block)
                      THEN msg.block[c - msg.begin \div Cell] ELSE @[c]],
              !.downloaded = ((@ \div Cell + Len(msg.block)) % U32Cells) * Cell]

RecvPiece(s, msg) ==
    /\ s.pc = "read"
    /\ IF s.current_work # None /\ Accepts(s.current_work[1], msg)
       THEN LET w == OnBlock(s.current_work[1], msg)
                s2 == [s EXCEPT !.current_work = Some(w)]
            IN  IF w.downloaded = w.piece_length
                THEN sessions' = Replace(s, [s2 EXCEPT !.pc = "verify"])
                ELSE sessions' = Step(s, s2)
       ELSE sessions' = Step(s, s)
    /\ UNCHANGED <<manager, mode, disk, lock, sup, call>>

\* the Requests a peer may send: a Complete or a missing piece, an index out of
\* range, a range within the piece and one past its end
RequestMsgs ==
    {[index |-> index, begin |-> begin, length |-> length] :
        index \in {0, Len(manager.piece_status) - 1, Len(manager.piece_status)},
        begin \in {0, Cell},
        length \in {Cell, BLOCK_MAX}}

\* a Request frame is read
RecvRequest(s, req) ==
    /\ s.pc = "read"
    /\ sessions' = Replace(s, [s EXCEPT !.pc = "serve", !.serving = Some(req)])
    /\ UNCHANGED <<manager, mode, disk, lock, sup, call>>

\* Message::Request { .. } => {}: nothing is read from disk, nothing is written
\* to the socket
ServeRequest(s) ==
    /\ s.pc = "serve"
    /\ sessions' = Step(s, [s EXCEPT !.serving = None])
    /\ UNCHANGED <<manager, mode, disk, lock, sup, call>>

\* a read error, a frame that does not parse, or 30 s without a message
ReadFail(s) ==
    /\ s.pc = "read"
    /\ sessions' = Fail(s)
    /\ UNCHANGED <<manager, mode, disk, lock, sup, call>>

(***************************************************************************)
(* The completed piece: hash check, ledger and the write to the files.     *)
(***************************************************************************)
\* the session computes the piece's place in the stream from the assignment
SessionGlobalStart(w) == w.piece_index * w.piece_length

SessionSpans(t, w) == Spans(files_list(t), 1, 0, SessionGlobalStart(w), w.piece_length)

\* the hash check and the ledger update made without the guard being kept for
\* the write
VerifyUnlocked(s) ==
    /\ s.pc = "verify"
    /\ ~lock
    /\ LET w == s.current_work[1]
           actual_hash == Sha1(w.piece_buffer)
           expected_hash == get_piece_hash(manager.torrent, w.piece_index)
       IN  IF expected_hash = None
           THEN /\ sessions' = Fail(s)
                /\ UNCHANGED manager
           ELSE IF actual_hash = expected_hash[1]
           THEN /\ manager' = mark_piece_complete(manager, w.piece_index)
                /\ sessions' = Replace(s, [s EXCEPT !.pc = "write"])
           ELSE /\ manager' = reset_piece(manager, w.piece_index)
                /\ sessions' = Step(s, [s EXCEPT !.current_work = None])
    /\ UNCHANGED <<mode, disk, lock, sup, call>>

\* manager.lock().await, then the hash comparison and the ledger update
Verify(s) ==
    /\ s.pc = "verify"
    /\ ~lock
    /\ LET w == s.current_work[1]
           actual_hash == Sha1(w.piece_buffer)
           expected_hash == get_piece_hash(manager.torrent, w.piece_index)
       IN  IF expected_hash = None
           THEN /\ sessions' = Fail(s)
                /\ UNCHANGED <<manager, lock>>
           ELSE IF actual_hash = expected_hash[1]
           THEN /\ manager' = mark_piece_complete(manager, w.piece_index)
                /\ lock' = TRUE
                /\ sessions' = Replace(s, [s EXCEPT !.pc = "write"])
           ELSE /\ manager' = reset_piece(manager, w.piece_index)
                /\ sessions' = Step(s, [s EXCEPT !.current_work = None])
                /\ UNCHANGED lock
    /\ UNCHANGED <<mode, disk, sup, call>>

\* every overlapping file opened, written and synced; the guard is dropped
WriteOk(s) ==
    /\ s.pc = "write"
    /\ LET w == s.current_work[1]
           spans == SessionSpans(manager.torrent, w)
       IN  disk' = WriteSpans(disk, spans, w.piece_buffer, Len(spans))
    /\ lock' = FALSE
    /\ sessions' = Step(s, [s EXCEPT !.current_work = None])
    /\ UNCHANGED <<manager, mode, sup, call>>

\* open, seek, write_all or sync_all fails after k files were written
WriteFail(s, k) ==
    /\ s.pc = "write"
    /\ LET w == s.current_work[1]
           spans == SessionSpans(manager.torrent, w)
       IN  /\ k <= Len(spans)
           /\ disk' = WriteSpans(disk, spans, w.piece_buffer, k)
    /\ lock' = FALSE
    /\ sessions' = Fail(s)
    /\ UNCHANGED <<manager, mode, sup, call>>

(***************************************************************************)
(* Work assignment and the request pipeline.                               *)
(***************************************************************************)
Assign(s) ==
    /\ s.pc = "assign"
    /\ ~lock
    /\ LET r == PickIndex(manager, s.peer_has_pieces)
       IN  /\ manager' = pick_next_piece(manager, s.peer_has_pieces)
           /\ IF r # None
              THEN LET piece_len == calculate_piece_size(manager.torrent, r[1])
                       s2 == [s EXCEPT !.current_work = Some(NewWork(r[1], piece_len))]
                   IN  sessions' = Replace(s, [s2 EXCEPT !.pc = PipelinePc(s2)])
              ELSE sessions' = Replace(s, [s EXCEPT !.pc = "read"])
    /\ UNCHANGED <<mode, disk, lock, sup, call>>

\* a Request of a full block whatever is left of the piece
NextRequestFull(w) ==
    [index |-> w.piece_index,
     begin |-> w.requested,
     length |-> BLOCK_MAX]

\* the Request the pipeline writes next
NextRequest(w) ==
    [index |-> w.piece_index,
     begin |-> w.requested,
     length |-> Min(BLOCK_MAX, w.piece_length - w.requested)]

SendRequest(s) ==
    /\ s.pc = "pipeline"
    /\ InFlight(s.current_work[1]) < PipelineCells
    /\ LET w == s.current_work[1]
           s2 == [s EXCEPT !.current_work =
                               Some([w EXCEPT !.requested = @ + NextRequest(w).length,
                                              !.sent = Append(@, NextRequest(w))])]
       IN  sessions' = Replace(s, [s2 EXCEPT !.pc = PipelinePc(s2)])
    /\ UNCHANGED <<manager, mode, disk, lock, sup, call>>

\* the socket write of a Request fails
SendFail(s) ==
    /\ s.pc = "pipeline"
    /\ InFlight(s.current_work[1]) < PipelineCells
    /\ sessions' = Fail(s)
    /\ UNCHANGED <<manager, mode, disk, lock, sup, call>>

\* requested - downloaded below zero, overflow checks on: the task panics and is
\* gone without reaching the cleanup
PipelinePanic(s) ==
    /\ s.pc = "pipeline"
    /\ Underflows(s.current_work[1])
    /\ sessions' = Remove(s)
    /\ UNCHANGED <<manager, mode, disk, lock, sup, call>>

\* the same with overflow checks off: the difference wraps and the loop ends
PipelineWrap(s) ==
    /\ s.pc = "pipeline"
    /\ Underflows(s.current_work[1])
    /\ InFlight(s.current_work[1]) >= PipelineCells
    /\ sessions' = Replace(s, [s EXCEPT !.pc = "read"])
    /\ UNCHANGED <<manager, mode, disk, lock, sup, call>>

\* a cleanup that returns every piece in progress, whoever holds it
CleanupAll(s) ==
    /\ s.pc = "cleanup"
    /\ ~lock
    /\ manager' = [manager EXCEPT !.piece_status =
                      [i \in 1..Len(@) |-> IF @[i] = InProgress THEN Pending ELSE @[i]]]
    /\ sessions' = Remove(s)
    /\ UNCHANGED <<mode, disk, lock, sup, call>>

\* after the loop: the piece held goes back to the manager
Cleanup(s) ==
    /\ s.pc = "cleanup"
    /\ ~lock
    /\ manager' = reset_piece(manager, s.current_work[1].piece_index)
    /\ sessions' = Remove(s)
    /\ UNCHANGED <<mode, disk, lock, sup, call>>

(***************************************************************************)
(* main.rs: the supervisor.                                                *)
(***************************************************************************)
Startup ==
    /\ sup = "startup"
    /\ manager' = verify_existing_data(manager, disk)
    /\ disk' = PreAllocate(manager.torrent, disk)
    /\ sup' = "loop"
    /\ UNCHANGED <<mode, lock, sessions, call>>

\* verify_existing_data when the pre-allocation of the files in failed fails
StartupUnallocated(failed) ==
    /\ sup = "startup"
    /\ manager' = VerifyFrom(manager, PreAllocateExcept(manager.torrent, disk, failed), 0)
    /\ disk' = PreAllocateExcept(manager.torrent, disk, failed)
    /\ sup' = "loop"
    /\ UNCHANGED <<mode, lock, sessions, call>>

\* a cycle that spawns without looking at the ledger
SupCycleAlways(n, maxLive) ==
    /\ sup = "loop"
    /\ ~lock
    /\ NumLive + Min(n, SPAWN_CAP) <= maxLive
    /\ sessions' = Spawn(sessions, Min(n, SPAWN_CAP))
    /\ UNCHANGED <<manager, mode, disk, lock, sup, call>>

\* one cycle that goes on: the tracker names n peers and the first SPAWN_CAP of
\* them get a session; the model holds at most maxLive sessions
SupCycle(n, maxLive) ==
    /\ sup = "loop"
    /\ ~lock
    /\ ~(is_complete(manager) /\ mode = "download")
    /\ NumLive + Min(n, SPAWN_CAP) <= maxLive
    /\ sessions' = Spawn(sessions, Min(n, SPAWN_CAP))
    /\ UNCHANGED <<manager, mode, disk, lock, sup, call>>

\* the download is complete: the loop is left for the grace delay
SupComplete ==
    /\ sup = "loop"
    /\ ~lock
    /\ is_complete(manager)
    /\ mode = "download"
    /\ sup' = "grace"
    /\ UNCHANGED <<manager, mode, disk, lock, sessions, call>>

\* main returns: the runtime drops every task where it stands
SupExit ==
    /\ sup = "grace"
    /\ sup' = "exited"
    /\ sessions' = EmptyBag
    /\ lock' = FALSE
    /\ UNCHANGED <<manager, mode, disk, call>>

(***************************************************************************)
(* The specifications.                                                     *)
(***************************************************************************)
\* the runs: the multi-file torrent downloaded and seeded, the big piece downloaded
Configs ==
    {[torrent |-> MultiFile, mode |-> "download"],
     [torrent |-> MultiFile, mode |-> "seed"],
     [torrent |-> BigFile, mode |-> "download"]}

\* the files' cells as the original data has them
FullDisk(t) ==
    [k \in 1..Len(files_list(t)) |->
        LET F0 == SumSeq(SubSeq(files_list(t), 1, k - 1))
        IN  OrigRange(F0, F0 + files_list(t)[k])]

\* the last file short by the last piece
AllButLast(t) ==
    LET d == FullDisk(t)
        n == Len(d)
        last == calculate_piece_size(t, NumPieces(t) - 1) \div Cell
    IN  [d EXCEPT ![n] = SubSeq(@, 1, Len(@) - last)]

NoFiles(t) == [k \in 1..Len(files_list(t)) |-> <<>>]

InitDisks(t) == {NoFiles(t), AllButLast(t), FullDisk(t)}

Init ==
    /\ \E c \in Configs :
          /\ manager = NewManager(c.torrent)
          /\ disk \in InitDisks(c.torrent)
          /\ mode = c.mode
    /\ lock = FALSE
    /\ sup = "startup"
    /\ sessions = EmptyBag
    /\ call = None

Next ==
    \/ Startup
    \/ \E n \in 0..MaxLive : SupCycle(n, MaxLive)
    \/ SupComplete
    \/ SupExit
    \/ \E s \in Live : ConnectOk(s)
    \/ \E s \in Live : ConnectFail(s)
    \/ \E s \in Live : HandshakeOk(s)
    \/ \E s \in Live : HandshakeFail(s)
    \/ \E s \in Live : InitState(s)
    \/ \E s \in Live : RecvChoke(s)
    \/ \E s \in Live : RecvUnchoke(s)
    \/ \E s \in Live : RecvIgnored(s)
    \/ \E s \in Live : \E index \in HaveIndexes : RecvHave(s, index)
    \/ \E s \in Live : \E bitfield \in Bitfields : RecvBitfield(s, bitfield)
    \/ \E s \in Live : \E msg \in PieceMsgs(s) : RecvPiece(s, msg)
    \/ \E s \in Live : ReadFail(s)
    \/ \E s \in Live : Verify(s)
    \/ \E s \in Live : WriteOk(s)
    \/ \E s \in Live : \E k \in 0..Len(files_list(manager.torrent)) : WriteFail(s, k)
    \/ \E s \in Live : Assign(s)
    \/ \E s \in Live : SendRequest(s)
    \/ \E s \in Live : SendFail(s)
    \/ \E s \in Live : PipelinePanic(s)
    \/ \E s \in Live : PipelineWrap(s)
    \/ \E s \in Live : Cleanup(s)

Spec == Init /\ [][Next]_vars

(***************************************************************************)
(* The supervisor against peers that accept the connection and never       *)
(* answer the handshake: the sessions stay where they are.                  *)
(***************************************************************************)
CapPeerCounts == {0, 1, SPAWN_CAP, SPAWN_CAP + 1}

NextCap ==
    \/ Startup
    \/ \E n \in CapPeerCounts : SupCycle(n, MaxLiveCap)
    \/ SupComplete
    \/ SupExit
    \/ \E s \in Live : ConnectOk(s)
    \/ \E s \in Live : ConnectFail(s)
    \/ \E s \in Live : HandshakeFail(s)

SpecCap == Init /\ [][NextCap]_vars

(***************************************************************************)
(* The download from peers that have every piece, unchoke and stay so, and *)
(* answer each Request with its block, with no error on either side.       *)
(***************************************************************************)
HonestBitfields == {<<255>>}

NextHonest ==
    \/ Startup
    \/ \E n \in 0..MaxLive : SupCycle(n, MaxLive)
    \/ SupComplete
    \/ SupExit
    \/ \E s \in Live : ConnectOk(s)
    \/ \E s \in Live : HandshakeOk(s)
    \/ \E s \in Live : InitState(s)
    \/ \E s \in Live : RecvUnchoke(s)
    \/ \E s \in Live : \E bitfield \in HonestBitfields : RecvBitfield(s, bitfield)
    \/ \E s \in Live : \E msg \in HonestPieces(s) : RecvPiece(s, msg)
    \/ \E s \in Live : Verify(s)
    \/ \E s \in Live : WriteOk(s)
    \/ \E s \in Live : Assign(s)
    \/ \E s \in Live : SendRequest(s)

SpecHonest == Init /\ [][NextHonest]_vars

(***************************************************************************)
(* Peers that connect to ask for blocks: the sessions read Requests.       *)
(***************************************************************************)
NextUpload ==
    \/ Startup
    \/ \E n \in 0..MaxLive : SupCycle(n, MaxLive)
    \/ SupComplete
    \/ SupExit
    \/ \E s \in Live : ConnectOk(s)
    \/ \E s \in Live : HandshakeOk(s)
    \/ \E s \in Live : InitState(s)
    \/ \E s \in Live : \E req \in RequestMsgs : RecvRequest(s, req)
    \/ \E s \in Live : ServeRequest(s)
    \/ \E s \in Live : ReadFail(s)

SpecUpload == Init /\ [][NextUpload]_vars

(***************************************************************************)
(* The sessions up to the message loop, the handshake taken step by step.  *)
(***************************************************************************)
NextHandshake ==
    \/ Startup
    \/ \E n \in 0..MaxLive : SupCycle(n, MaxLive)
    \/ \E s \in Live : ConnectOk(s)
    \/ \E s \in Live : ConnectFail(s)
    \/ \E s \in Live :
          \E response \in Responses(calculate_info_hash(manager.torrent)) :
             ReadHandshake(s, response)
    \/ \E s \in Live : HandshakeFail(s)
    \/ \E s \in Live : CheckHandshake(s)
    \/ \E s \in Live : SendInterested(s)
    \/ \E s \in Live : SendInterestedFail(s)
    \/ \E s \in Live : InitState(s)

SpecHandshake == Init /\ [][NextHandshake]_vars

(***************************************************************************)
(* The startup verification on files of any length whose cells hold the    *)
(* original data, zeros or anything else.                                  *)
(***************************************************************************)
\* the first cells of a file, each as the original has it, zero or corrupt
FilePrefixes(full) ==
    UNION {{[c \in 1..n |-> CASE kind[c] = "orig" -> full[c]
                               [] kind[c] = "zero" -> Zero
                               [] kind[c] = "corrupt" -> Corrupt] :
               kind \in [1..n -> {"orig", "zero", "corrupt"}]} : n \in 0..Len(full)}

StartupDisks(t) ==
    IF Len(files_list(t)) = 2
    THEN {<<a, b>> : a \in FilePrefixes(FullDisk(t)[1]), b \in FilePrefixes(FullDisk(t)[2])}
    ELSE InitDisks(t)

InitStartup ==
    /\ \E t \in {MultiFile, BigFile} :
          /\ manager = NewManager(t)
          /\ disk \in StartupDisks(t)
    /\ mode = "download"
    /\ lock = FALSE
    /\ sup = "startup"
    /\ sessions = EmptyBag
    /\ call = None

NextStartup ==
    \/ Startup
    \/ \E failed \in SUBSET (1..Len(files_list(manager.torrent))) \ {{}} :
          StartupUnallocated(failed)

SpecStartup == InitStartup /\ [][NextStartup]_vars

(***************************************************************************)
(* The download from peers that have every piece, choke and unchoke as     *)
(* they like, answer Requests with the right blocks or not at all, and     *)
(* send KeepAlives.  Every step the runtime or a timer makes sure of is    *)
(* taken in the end: the connect ends within 3 s, every read ends within   *)
(* 30 s with a message or with the timeout, and a task that can go on      *)
(* does.  Nothing makes the peer send any message rather than another.     *)
(***************************************************************************)
\* sessions alive at a time
StallPeers == 1

NextStall ==
    \/ Startup
    \/ \E n \in 0..StallPeers : SupCycle(n, StallPeers)
    \/ SupComplete
    \/ SupExit
    \/ \E s \in Live : ConnectOk(s)
    \/ \E s \in Live : ConnectFail(s)
    \/ \E s \in Live : HandshakeOk(s)
    \/ \E s \in Live : HandshakeFail(s)
    \/ \E s \in Live : InitState(s)
    \/ \E s \in Live : RecvChoke(s)
    \/ \E s \in Live : RecvUnchoke(s)
    \/ \E s \in Live : RecvKeepAlive(s)
    \/ \E s \in Live : \E bitfield \in HonestBitfields : RecvBitfield(s, bitfield)
    \/ \E s \in Live : \E msg \in HonestPieces(s) : RecvPiece(s, msg)
    \/ \E s \in Live : ReadFail(s)
    \/ \E s \in Live : Verify(s)
    \/ \E s \in Live : WriteOk(s)
    \/ \E s \in Live : Assign(s)
    \/ \E s \in Live : SendRequest(s)
    \/ \E s \in Live : Cleanup(s)

\* timeout(3 s, connect): the connect ends
ConnectEnds == \E s \in Live : ConnectOk(s) \/ ConnectFail(s)

\* timeout(30 s, Message::read): the read ends, with a message or without
ReadEnds ==
    \E s \in Live :
       \/ RecvChoke(s)
       \/ RecvUnchoke(s)
       \/ RecvKeepAlive(s)
       \/ \E bitfield \in HonestBitfields : RecvBitfield(s, bitfield)
       \/ \E msg \in HonestPieces(s) : RecvPiece(s, msg)
       \/ ReadFail(s)

\* the steps of a task that waits for no peer
TaskGoesOn ==
    \E s \in Live :
       \/ InitState(s)
       \/ Verify(s)
       \/ WriteOk(s)
       \/ Assign(s)
       \/ SendRequest(s)
       \/ Cleanup(s)

SpecStall ==
    /\ Init
    /\ [][NextStall]_vars
    /\ WF_vars(ConnectEnds)
    /\ WF_vars(ReadEnds)
    /\ WF_vars(TaskGoesOn)

(***************************************************************************)
(* pick_next_piece on every ledger of the multi-file torrent and every     *)
(* bitfield of up to MaxBits entries, called as the session calls it.      *)
(***************************************************************************)
MaxBits == 4

BoolSeqs(n) == UNION {[1..k -> BOOLEAN] : k \in 0..n}

CountComplete(status) == Cardinality({i \in 1..Len(status) : status[i] = Complete})

InitPick ==
    /\ \E status \in [1..NumPieces(MultiFile) -> {Pending, InProgress, Complete}] :
          manager = [torrent |-> MultiFile,
                     piece_status |-> status,
                     downloaded_pieces |-> CountComplete(status)]
    /\ \E bits \in BoolSeqs(MaxBits) :
          sessions = SetToBag({[NewSession EXCEPT !.pc = "assign",
                                                  !.am_unchoked = TRUE,
                                                  !.peer_has_pieces = bits]})
    /\ disk = FullDisk(MultiFile)
    /\ mode = "download"
    /\ lock = FALSE
    /\ sup = "loop"
    /\ call = None

NextPick == \E s \in Live : Assign(s)

SpecPick == InitPick /\ [][NextPick]_vars

(***************************************************************************)
(* The ledger's three calls, in any order, on every ledger of the          *)
(* multi-file torrent.                                                     *)
(***************************************************************************)
InitLedger ==
    /\ \E status \in [1..NumPieces(MultiFile) -> {Pending, InProgress, Complete}] :
          manager = [torrent |-> MultiFile,
                     piece_status |-> status,
                     downloaded_pieces |-> CountComplete(status)]
    /\ sessions = EmptyBag
    /\ disk = FullDisk(MultiFile)
    /\ mode = "download"
    /\ lock = FALSE
    /\ sup = "loop"
    /\ call = None

CallPick(peer_bitfield) ==
    /\ manager' = pick_next_piece(manager, peer_bitfield)
    /\ call' = [op |-> "pick_next_piece", before |-> manager,
                peer_bitfield |-> peer_bitfield,
                returned |-> PickIndex(manager, peer_bitfield)]
    /\ UNCHANGED <<mode, disk, lock, sup, sessions>>

CallMark(index) ==
    /\ manager' = mark_piece_complete(manager, index)
    /\ call' = [op |-> "mark_piece_complete", before |-> manager, index |-> index]
    /\ UNCHANGED <<mode, disk, lock, sup, sessions>>

CallReset(index) ==
    /\ manager' = reset_piece(manager, index)
    /\ call' = [op |-> "reset_piece", before |-> manager, index |-> index]
    /\ UNCHANGED <<mode, disk, lock, sup, sessions>>

NextLedger ==
    \/ \E peer_bitfield \in BoolSeqs(MaxBits) : CallPick(peer_bitfield)
    \/ \E index \in 0..(Len(manager.piece_status) - 1) : CallMark(index)
    \/ \E index \in 0..(Len(manager.piece_status) - 1) : CallReset(index)

SpecLedger == InitLedger /\ [][NextLedger]_vars

(***************************************************************************)
(* network/message.rs: the wire codec.  A u32 is the pair of its 16-bit    *)
(* halves <<high, low>>; a byte is a number in 0..255.                     *)
(***************************************************************************)
\* n as u32, for 0 <= n < 2^31
U32Of(n) == <<n \div 65536, n % 65536>>

\* the bytes of a u32, least significant first
to_le_bytes(u) == <<u[2] % 256, u[2] \div 256, u[1] % 256, u[1] \div 256>>

to_be_bytes(u) == <<u[1] \div 256, u[1] % 256, u[2] \div 256, u[2] % 256>>

from_be_bytes(b) == <<b[1] * 256 + b[2], b[3] * 256 + b[4]>>

KeepAlive == [type |-> "KeepAlive"]

Choke == [type |-> "Choke"]

Unchoke == [type |-> "Unchoke"]

Interested == [type |-> "Interested"]

NotInterested == [type |-> "NotInterested"]

Have(index) == [type |-> "Have", index |-> index]

Bitfield(payload) == [type |-> "Bitfield", payload |-> payload]

Request(index, begin, length) ==
    [type |-> "Request", index |-> index, begin |-> begin, length |-> length]

Piece(index, begin, block) ==
    [type |-> "Piece", index |-> index, begin |-> begin, block |-> block]

serialize(msg) ==
    CASE msg.type = "KeepAlive" -> <<0, 0, 0, 0>>
      [] msg.type = "Choke" -> <<0, 0, 0, 1, 0>>
      [] msg.type = "Unchoke" -> <<0, 0, 0, 1, 1>>
      [] msg.type = "Interested" -> <<0, 0, 0, 1, 2>>
      [] msg.type = "NotInterested" -> <<0, 0, 0, 1, 3>>
      [] msg.type = "Have" -> <<0, 0, 0, 5, 4>> \o to_be_bytes(msg.index)
      [] msg.type = "Bitfield" ->
            to_be_bytes(U32Of(1 + Len(msg.payload))) \o <<5>> \o msg.payload
      [] msg.type = "Request" ->
            <<0, 0, 0, 13, 6>> \o to_be_bytes(msg.index) \o to_be_bytes(msg.begin)
                \o to_be_bytes(msg.length)
      [] msg.type = "Piece" ->
            to_be_bytes(U32Of(1 + 4 + 4 + Len(msg.block))) \o <<7>>
                \o to_be_bytes(msg.index) \o to_be_bytes(msg.begin) \o msg.block

\* a frame that cannot be parsed is taken for a keep-alive
ErrAsKeepAlive == [ok |-> TRUE, msg |-> KeepAlive, consumed |-> 4]

Err == [ok |-> FALSE]

\* Ok(msg), with the number of bytes taken from the stream
Ok(msg, consumed) == [ok |-> TRUE, msg |-> msg, consumed |-> consumed]

\* step 5 of Message::read: the message of an id and its payload
ParsePayload(id, payload, consumed) ==
    CASE id = 0 -> Ok(Choke, consumed)
      [] id = 1 -> Ok(Unchoke, consumed)
      [] id = 2 -> Ok(Interested, consumed)
      [] id = 3 -> Ok(NotInterested, consumed)
      [] id = 4 ->
            IF Len(payload) # 4 THEN Err
            ELSE Ok(Have(from_be_bytes(payload)), consumed)
      [] id = 5 -> Ok(Bitfield(payload), consumed)
      [] id = 6 ->
            IF Len(payload) # 12 THEN Err
            ELSE Ok(Request(from_be_bytes(SubSeq(payload, 1, 4)),
                            from_be_bytes(SubSeq(payload, 5, 8)),
                            from_be_bytes(SubSeq(payload, 9, 12))), consumed)
      [] id = 7 ->
            IF Len(payload) < 8 THEN Err
            ELSE Ok(Piece(from_be_bytes(SubSeq(payload, 1, 4)),
                          from_be_bytes(SubSeq(payload, 5, 8)),
                          SubSeq(payload, 9, Len(payload))), consumed)
      [] OTHER -> Err

\* Message::read on a stream that ends after its last byte: read_exact fails
\* when the stream is short.  The streams of the model are shorter than 65536
\* bytes, so a length prefix with a high half is more than the stream holds.
read(stream) ==
    IF Len(stream) < 4 THEN Err
    ELSE LET length == from_be_bytes(SubSeq(stream, 1, 4))
         IN  IF length = U32Of(0) THEN Ok(KeepAlive, 4)
             ELSE IF Len(stream) < 5 THEN Err
             ELSE LET id == stream[5]
                      payload_len == length[2] - 1
                  IN  IF length[1] # 0 \/ 5 + payload_len > Len(stream) THEN Err
                      ELSE ParsePayload(id, SubSeq(stream, 6, 5 + payload_len),
                                        5 + payload_len)

(***************************************************************************)
(* The codec on its own: messages serialized and read back, frames read    *)
(* and serialized again.                                                   *)
(***************************************************************************)
\* blocks and bitfields of up to MaxBlock bytes
MaxBlock == 2

\* frames with payloads of up to MaxPayload bytes
MaxPayload == 12

ByteSeqs(bytes, n) == UNION {[1..k -> bytes] : k \in 0..n}

\* 0, 0x01020304 and 0xFFFFFFFF
U32Samples == {U32Of(0), <<258, 772>>, <<65535, 65535>>}

Messages ==
    {KeepAlive, Choke, Unchoke, Interested, NotInterested}
    \cup {Have(index) : index \in U32Samples}
    \cup {Bitfield(payload) : payload \in ByteSeqs({0, 7, 255}, MaxBlock)}
    \cup {Request(index, begin, length) :
             index \in U32Samples, begin \in U32Samples, length \in U32Samples}
    \cup {Piece(index, begin, block) :
             index \in {U32Of(0), <<258, 772>>}, begin \in U32Samples,
             block \in ByteSeqs({0, 7, 255}, MaxBlock)}

\* what follows the message on the stream
Tails == {<<>>, <<0, 0, 0, 1>>}

\* a length prefix, an id and a payload of the length the prefix announces
Frames ==
    {<<0, 0, 0, 0>>}
    \cup {to_be_bytes(U32Of(1 + Len(payload))) \o <<id>> \o payload :
             id \in 0..8, payload \in ByteSeqs({0, 255}, MaxPayload)}

\* streams that end before the frame does
ShortStreams ==
    {<<>>, <<0, 0, 0>>, <<0, 0, 0, 1>>, <<0, 0, 0, 5, 4, 0>>, <<0, 1, 0, 0, 5>>,
     <<255, 255, 255, 255, 7>>}

InitCodec ==
    /\ manager = NewManager(MultiFile)
    /\ disk = NoFiles(MultiFile)
    /\ sessions = EmptyBag
    /\ mode = "download"
    /\ lock = FALSE
    /\ sup = "startup"
    /\ call = None

CallSerialize(msg, tail) ==
    /\ call = None
    /\ call' = [op |-> "serialize", msg |-> msg, bytes |-> serialize(msg),
                stream |-> serialize(msg) \o tail]
    /\ UNCHANGED <<manager, mode, disk, lock, sup, sessions>>

\* the serialized message is read back from the stream
CallReadBack ==
    /\ Called("serialize")
    /\ call' = [op |-> "serialize, read", msg |-> call.msg, bytes |-> call.bytes,
                stream |-> call.stream, parsed |-> read(call.stream)]
    /\ UNCHANGED <<manager, mode, disk, lock, sup, sessions>>

CallRead(stream) ==
    /\ call = None
    /\ call' = [op |-> "read", stream |-> stream, parsed |-> read(stream)]
    /\ UNCHANGED <<manager, mode, disk, lock, sup, sessions>>

\* the message read is serialized again
CallSerializeBack ==
    /\ Called("read")
    /\ call.parsed.ok
    /\ call' = [op |-> "read, serialize", stream |-> call.stream, parsed |-> call.parsed,
                bytes |-> serialize(call.parsed.msg)]
    /\ UNCHANGED <<manager, mode, disk, lock, sup, sessions>>

NextCodec ==
    \/ call = None /\ \E msg \in Messages : \E tail \in Tails : CallSerialize(msg, tail)
    \/ CallReadBack
    \/ call = None /\ \E stream \in Frames \cup ShortStreams : CallRead(stream)
    \/ CallSerializeBack

SpecCodec == InitCodec /\ [][NextCodec]_vars

(***************************************************************************)
(* Functions of the metainfo, the handshake, the disk and the session,     *)
(* each applied on its own to inputs of its type.                          *)
(***************************************************************************)
\* [u8; 20] values: the info-hashes of the model's torrents, all zeros, all
\* 255 and a peer id
Hashes ==
    {calculate_info_hash(MultiFile), calculate_info_hash(BigFile),
     [i \in 1..20 |-> 0], [i \in 1..20 |-> 255], generate_peer_id(48)}

PeerIds == {generate_peer_id(c) : c \in {48, 65, 122}} \cup {[i \in 1..20 |-> 0]}

CallAsBytes(info_hash, peer_id) ==
    /\ call = None
    /\ call' = [op |-> "as_bytes", info_hash |-> info_hash, peer_id |-> peer_id,
                bytes |-> as_bytes(Handshake(info_hash, peer_id))]
    /\ UNCHANGED <<manager, mode, disk, lock, sup, sessions>>

\* piece lengths of up to MaxPieceLength bytes
MaxPieceLength == 5

\* total lengths of up to MaxTotal bytes
MaxTotal == 12

\* the metainfos of one file, and of two files of any lengths, whose pieces
\* field holds one hash per piece
ValidMetainfos ==
    {MkTorrent(piece_length, Some(total), None) :
        piece_length \in 1..MaxPieceLength, total \in 1..MaxTotal}
    \cup UNION {{MkTorrent(piece_length, None, Some(<<first, total - first>>)) :
                    first \in 0..total} :
                 piece_length \in 1..MaxPieceLength, total \in 1..MaxTotal}

\* calculate_piece_size for every piece, as TorrentManager asks for it
CallPieceSizes(t) ==
    /\ call = None
    /\ call' = [op |-> "calculate_piece_size", torrent |-> t,
                total_length |-> total_length(t),
                sizes |-> [i \in 1..NumPieces(t) |-> calculate_piece_size(t, i - 1)]]
    /\ UNCHANGED <<manager, mode, disk, lock, sup, sessions>>

\* three files under one piece and a short last piece: sizes 24576, 8192
ThreeFiles == MkTorrent(3 * Cell, None, Some(<<Cell, Cell, 2 * Cell>>))

\* a file of no bytes in the middle of a piece
EmptyFile == MkTorrent(2 * Cell, None, Some(<<Cell, 0, Cell>>))

Layouts == {MultiFile, BigFile, ThreeFiles, EmptyFile}

\* the data handed to write_piece_to_disk: any cells of the piece's size for
\* the small pieces, the original piece for the big one, and data one cell
\* short or long
PieceData(t, index) ==
    LET n == calculate_piece_size(t, index) \div Cell
    IN  IF n <= 3
        THEN [1..n -> {Zero, Corrupt, 7}] \cup [1..(n - 1) -> {7}] \cup [1..(n + 1) -> {7}]
        ELSE {OrigPiece(t, index), [c \in 1..n |-> Corrupt]}

\* the disk all of whose cells are corrupt
CorruptDisk(t) == [k \in 1..Len(files_list(t)) |-> [c \in 1..Len(FullDisk(t)[k]) |-> Corrupt]]

\* write_piece_to_disk(index, data), then read_piece_from_disk(index, size) as
\* verify_existing_data calls it, with the spans either loop computes
CallWriteRead(t, d, index, data) ==
    LET piece_len == calculate_piece_size(t, index)
        written == write_piece_to_disk(t, d, index, data)
    IN  /\ call = None
        /\ call' = [op |-> "write_piece_to_disk, read_piece_from_disk",
                    torrent |-> t, index |-> index, data |-> data,
                    before |-> d, after |-> written,
                    write_ok |-> (Len(data) * Cell = piece_len),
                    write_spans |-> WriteSpansOf(t, index),
                    read_spans |-> ReadSpansOf(t, index, piece_len),
                    result |-> read_piece_from_disk(t, written, index, piece_len)]
        /\ UNCHANGED <<manager, mode, disk, lock, sup, sessions>>

\* sessions of torrents of up to MaxPieces pieces
MaxPieces == 10

\* bitfields of up to MaxBitfield bytes
MaxBitfield == 2

\* the Bitfield handler on the peer_has_pieces of a session that has read no
\* message yet: piece_count entries, all false
CallOnBitfield(piece_count, bitfield) ==
    /\ call = None
    /\ call' = [op |-> "Bitfield", piece_count |-> piece_count, bitfield |-> bitfield,
                peer_has_pieces |-> OnBitfield([i \in 1..piece_count |-> FALSE], bitfield)]
    /\ UNCHANGED <<manager, mode, disk, lock, sup, sessions>>

\* files of up to MaxFileLen bytes
MaxFileLen == 7

\* torrents of up to MaxFiles files
MaxFiles == 3

\* layouts counted in bytes: every list of up to MaxFiles files of 0 to
\* MaxFileLen bytes, and single files, cut into pieces of 1 to
\* MaxPieceLength + 1 bytes
ByteLayouts ==
    {MkTorrent(piece_length, None, Some(fl)) :
        piece_length \in 1..(MaxPieceLength + 1),
        fl \in UNION {[1..n -> 0..MaxFileLen] : n \in 1..MaxFiles}}
    \cup {MkTorrent(piece_length, Some(total), None) :
            piece_length \in 1..(MaxPieceLength + 1), total \in 1..MaxTotal}

\* the overlap loop of write_piece_to_disk(index, ..) and of
\* read_piece_from_disk(index, size(index), ..) on the files of t
CallSpans(t, index) ==
    /\ call = None
    /\ call' = [op |-> "spans", torrent |-> t, index |-> index,
                files |-> files_list(t),
                piece_size |-> calculate_piece_size(t, index),
                write_spans |-> WriteSpansOf(t, index),
                read_spans |-> ReadSpansOf(t, index, calculate_piece_size(t, index))]
    /\ UNCHANGED <<manager, mode, disk, lock, sup, sessions>>

(***************************************************************************)
(* Torrent::get_piece_hash on every usize.  A usize is 64 bits wide: the    *)
(* sequence of its four 16-bit limbs, the most significant first.          *)
(***************************************************************************)
HASH_LEN == 20

Usize(n) == <<0, 0, n \div 65536, n % 65536>>

\* the usize is one the model's integers hold
IsSmall(u) == u[1] = 0 /\ u[2] = 0 /\ u[3] < 32768

ToInt(u) == u[3] * 65536 + u[4]

\* u * c for a small c: the wrapped product and whether it overflowed
MulUsize(u, c) ==
    LET p4 == u[4] * c
        p3 == u[3] * c + p4 \div 65536
        p2 == u[2] * c + p3 \div 65536
        p1 == u[1] * c + p2 \div 65536
    IN  [value |-> <<p1 % 65536, p2 % 65536, p3 % 65536, p4 % 65536>>,
         overflow |-> p1 \div 65536 > 0]

\* u + c for a small c
AddUsize(u, c) ==
    LET p4 == u[4] + c
        p3 == u[3] + p4 \div 65536
        p2 == u[2] + p3 \div 65536
        p1 == u[1] + p2 \div 65536
    IN  [value |-> <<p1 % 65536, p2 % 65536, p3 % 65536, p4 % 65536>>,
         overflow |-> p1 \div 65536 > 0]

Panic == [kind |-> "panic", hash |-> <<>>]

HashErr == [kind |-> "err", hash |-> <<>>]

HashOk(hash) == [kind |-> "ok", hash |-> hash]

\* get_piece_hash as built with overflow checks (the debug profile) or without
\* (the release profile, where the arithmetic wraps).  A slice that starts at
\* a whole hash is that hash; any other slice is named by its bounds.
get_piece_hash_usize(t, piece_index, overflow_checks) ==
    LET product == MulUsize(piece_index, HASH_LEN)
        start == product.value
        sum == AddUsize(start, HASH_LEN)
        end == sum.value
        len == Len(t.pieces) * HASH_LEN
    IN  IF overflow_checks /\ (product.overflow \/ sum.overflow) THEN Panic
        ELSE IF ~IsSmall(end) \/ ToInt(end) > len THEN HashErr
        ELSE IF ~IsSmall(start) \/ ToInt(start) > ToInt(end) THEN Panic
        ELSE IF ToInt(start) % HASH_LEN = 0
             THEN HashOk(get_piece_hash(t, ToInt(start) \div HASH_LEN)[1])
             ELSE HashOk(<<"pieces", ToInt(start), ToInt(end)>>)

\* indexes up to MaxIndex, and 2^32, floor(2^64 / 20), that plus 1 and 2^64 - 1
MaxIndex == 5

PieceIndexes ==
    {Usize(n) : n \in 0..MaxIndex}
    \cup {<<0, 1, 0, 0>>, <<3276, 52428, 52428, 52428>>, <<3276, 52428, 52428, 52429>>,
          <<65535, 65535, 65535, 65535>>}

CallGetPieceHash(t, piece_index, overflow_checks) ==
    /\ call = None
    /\ call' = [op |-> "get_piece_hash", torrent |-> t, piece_index |-> piece_index,
                overflow_checks |-> overflow_checks,
                result |-> get_piece_hash_usize(t, piece_index, overflow_checks)]
    /\ UNCHANGED <<manager, mode, disk, lock, sup, sessions>>

NextCalls ==
    \/ call = None /\ \E info_hash \in Hashes : \E peer_id \in PeerIds :
                         CallAsBytes(info_hash, peer_id)
    \/ call = None /\ \E t \in ValidMetainfos : CallPieceSizes(t)
    \/ call = None /\ \E t \in Layouts :
                         \E d \in InitDisks(t) \cup {CorruptDisk(t)} :
                            \E index \in 0..(NumPieces(t) - 1) :
                               \E data \in PieceData(t, index) :
                                  CallWriteRead(t, d, index, data)
    \/ call = None /\ \E piece_count \in 0..MaxPieces :
                         \E bitfield \in ByteSeqs({0, 1, 129, 224, 255}, MaxBitfield) :
                            CallOnBitfield(piece_count, bitfield)
    \/ call = None /\ \E t \in ByteLayouts : \E index \in 0..(NumPieces(t) - 1) :
                         CallSpans(t, index)
    \/ call = None /\ \E t \in Layouts : \E piece_index \in PieceIndexes :
                         \E overflow_checks \in BOOLEAN :
                            CallGetPieceHash(t, piece_index, overflow_checks)

SpecCalls == InitCodec /\ [][NextCalls]_vars

(***************************************************************************)
(* main.rs from its start: the metainfo file is read and decoded, and the  *)
(* manager is made from what the decoder returns.  A file is modelled by   *)
(* the fields the decoder finds in it; its pieces field by its length in   *)
(* bytes.                                                                  *)
(***************************************************************************)
\* serde_bencode::from_bytes into Torrent: an error when the bytes are no
\* bencoding of the struct, the struct otherwise.  The typed fields are all
\* the decoder looks at; pieces keeps its whole hashes in the model.
Torrent_read(file) ==
    IF ~file.decodes THEN None
    ELSE Some([piece_length |-> file.piece_length,
               length |-> file.length,
               files |-> file.files,
               pieces |-> [i \in 1..(file.pieces_len \div 20) |-> Sha1(<<i>>)]])

\* files that decode, with and without length and files, with pieces of whole
\* and broken hashes, and one that does not decode
MetainfoFiles ==
    {[decodes |-> TRUE, piece_length |-> piece_length, pieces_len |-> pieces_len,
      length |-> length, files |-> files] :
        piece_length \in 1..3,
        pieces_len \in {0, 20, 21, 40, 60},
        length \in {None, Some(2), Some(3)},
        files \in {None, Some(<<1, 1>>), Some(<<2, 2>>)}}
    \cup {[decodes |-> FALSE, piece_length |-> 1, pieces_len |-> 20,
           length |-> Some(1), files |-> None]}

InitLoad ==
    /\ manager = None
    /\ disk = <<>>
    /\ sessions = EmptyBag
    /\ mode = "download"
    /\ lock = FALSE
    /\ sup = "load"
    /\ call = None

\* Torrent::read(torrent_path)? and TorrentManager::new(torrent.clone())
Load(file) ==
    /\ sup = "load"
    /\ call' = [op |-> "Torrent::read", file |-> file, result |-> Torrent_read(file)]
    /\ IF Torrent_read(file) = None
       THEN /\ sup' = "exited"
            /\ UNCHANGED manager
       ELSE /\ sup' = "startup"
            /\ manager' = NewManager(Torrent_read(file)[1])
    /\ UNCHANGED <<mode, disk, lock, sessions>>

NextLoad == \E file \in MetainfoFiles : Load(file)

SpecLoad == InitLoad /\ [][NextLoad]_vars

(***************************************************************************)
(* Properties.                                                             *)
(***************************************************************************)
NPieces == Len(manager.piece_status)

Status(i) == manager.piece_status[i + 1]

Holds(s, i) == s.current_work # None /\ s.current_work[1].piece_index = i

\* the sessions whose current assignment is piece i, counted with multiplicity
Holders(i) == BagCardinality([s \in {x \in Live : Holds(x, i)} |-> CopiesIn(s, sessions)])

\* session s takes a step or ends in this step
Moves(s) == CopiesIn(s, sessions') < CopiesIn(s, sessions) /\ sup' # "exited"

\* a session ends in this step, the supervisor still running
Ends(s) == Moves(s) /\ BagCardinality(sessions') < BagCardinality(sessions)

\* session s goes on in its loop with its assignment cleared
GoesOnIdle(s) ==
    \E s2 \in BagToSet(sessions') :
        /\ s2 = [s EXCEPT !.current_work = None, !.pc = s2.pc]
        /\ s2.pc \in {"read", "assign"}
        /\ CopiesIn(s2, sessions') > CopiesIn(s2, sessions)

\* C1: at every moment at most one live session holds a given piece index as its
\* current assignment (no index is handed out twice without a reset between).
C1_OneHolderPerPiece == \A i \in 0..(NPieces - 1) : Holders(i) <= 1

\* two sessions whose peers have every piece, each with an assignment of its own
C1_Witness ==
    \E s1 \in Live : \E s2 \in Live :
        /\ s1.current_work # None
        /\ s2.current_work # None
        /\ s1.current_work[1].piece_index # s2.current_work[1].piece_index
        /\ \A i \in 1..NPieces : s1.peer_has_pieces[i] /\ s2.peer_has_pieces[i]

\* the bytes of piece i as the files hold them are the piece's data
OnDisk(i) ==
    LET t == manager.torrent
        got == read_piece_from_disk(t, disk, i, calculate_piece_size(t, i))
    IN  got # None /\ Sha1(got[1]) = t.pieces[i + 1]

\* C2: a piece that any task can observe as Complete (the manager lock is free)
\* has its bytes written and flushed to the files.
C2_CompleteImpliesWritten ==
    (sup # "startup" /\ ~lock) => \A i \in 0..(NPieces - 1) : Status(i) = Complete => OnDisk(i)

\* C3: whenever a session ends while it holds an assignment for piece i, piece i
\* is Pending when the session is gone.
C3_EndReleasesPiece ==
    [][\A s \in Live :
          (Ends(s) /\ s.current_work # None)
              => manager'.piece_status[s.current_work[1].piece_index + 1] = Pending]_vars

\* C4: the bytes a session writes for a verified piece i are the ones of the
\* stream range [i * piece_length, i * piece_length + size(i)), nothing else.
C4_WritesPieceRange ==
    [][\A s \in Live :
          (s.pc = "write" /\ Moves(s) /\ GoesOnIdle(s))
              => disk' = write_piece_to_disk(manager.torrent, disk,
                                             s.current_work[1].piece_index,
                                             s.current_work[1].piece_buffer)]_vars

\* C5: when the download has run to its end (every piece Complete, the
\* supervisor gone through its exit) the files equal the original data.
C5_ExitedWithOriginalData ==
    sup = "exited" => disk = FullDisk(manager.torrent)

\* C6: for every active assignment downloaded <= requested <= size(index).
C6_CountersOrdered ==
    \A s \in Live :
        s.current_work # None =>
            /\ s.current_work[1].downloaded <= s.current_work[1].requested
            /\ s.current_work[1].requested <= s.current_work[1].piece_length

\* C7: at every moment at most 20 peer sessions are running.
C7_AtMostTwentySessions == NumLive <= SPAWN_CAP

\* C8: when the assembled buffer's hash differs from the piece's, the piece goes
\* back to Pending, the assignment is cleared, nothing is written, the counter
\* stays and the session goes on in its loop.
C8_MismatchResets ==
    [][\A s \in Live :
          (/\ s.pc = "verify"
           /\ Moves(s)
           /\ Some(Sha1(s.current_work[1].piece_buffer))
                  # get_piece_hash(manager.torrent, s.current_work[1].piece_index))
              => /\ manager'.piece_status[s.current_work[1].piece_index + 1] = Pending
                 /\ manager'.downloaded_pieces = manager.downloaded_pieces
                 /\ disk' = disk
                 /\ BagCardinality(sessions') = BagCardinality(sessions)
                 /\ GoesOnIdle(s)]_vars

\* a full buffer that does not hash to the piece's hash, about to be checked
C8_Witness ==
    \E s \in Live :
        /\ s.pc = "verify"
        /\ ~lock
        /\ Some(Sha1(s.current_work[1].piece_buffer))
               # get_piece_hash(manager.torrent, s.current_work[1].piece_index)

\* the indices pick_next_piece may return for a bitfield
Eligible(bits) ==
    {i \in 0..(NPieces - 1) : Status(i) = Pending /\ i < Len(bits) /\ bits[i + 1]}

\* C9: pick_next_piece returns the smallest Pending index the bitfield has, sets
\* that status to InProgress and changes nothing else; with no such index
\* (a short bitfield included) it returns None and the ledger stays.
C9_PicksSmallestPending ==
    [][\A s \in Live :
          (s.pc = "assign" /\ Moves(s))
              => LET ok == Eligible(s.peer_has_pieces)
                 IN  IF ok = {}
                     THEN /\ manager' = manager
                          /\ \A s2 \in BagToSet(sessions') : s2.current_work = None
                     ELSE LET i == CHOOSE x \in ok : \A y \in ok : x <= y
                          IN  /\ manager' = [manager EXCEPT !.piece_status[i + 1] = InProgress]
                              /\ \E s2 \in BagToSet(sessions') : Holds(s2, i)]_vars

\* piece 0 is Pending and skipped, the bitfield not having it, and a later one picked
C9_Witness ==
    \E s \in Live :
        /\ s.current_work # None
        /\ s.current_work[1].piece_index > 0
        /\ Status(0) = Pending
        /\ Len(s.peer_has_pieces) < NPieces

\* C10: downloaded_pieces is the number of Complete pieces, so is_complete()
\* is true exactly when every piece is Complete.
C10_CounterCountsComplete ==
    /\ manager.downloaded_pieces = CountComplete(manager.piece_status)
    /\ is_complete(manager) <=> \A i \in 0..(NPieces - 1) : Status(i) = Complete

\* every piece counted, not all of them found on disk at startup
C10_Witness ==
    /\ NPieces > 1
    /\ manager.downloaded_pieces = NPieces
    /\ Status(0) = Complete
    /\ OnDisk(0)
    /\ disk # FullDisk(manager.torrent)

\* every status but the one of index is as it was before the call
OthersKept(index) ==
    \A j \in 0..(NPieces - 1) :
        j # index => Status(j) = call.before.piece_status[j + 1]

\* C11: mark_piece_complete(i) sets a Pending or InProgress piece to Complete and
\* adds exactly one to the counter; on a Complete piece it changes neither status
\* nor counter; it never changes another piece's status.
C11_MarkIdempotent ==
    Called("mark_piece_complete") =>
        /\ Status(call.index) = Complete
        /\ OthersKept(call.index)
        /\ manager.torrent = call.before.torrent
        /\ IF call.before.piece_status[call.index + 1] = Complete
           THEN manager = call.before
           ELSE manager.downloaded_pieces = call.before.downloaded_pieces + 1
        /\ mark_piece_complete(manager, call.index) = manager

\* mark_piece_complete applied to a piece that was Complete already
C11_Witness ==
    /\ Called("mark_piece_complete")
    /\ call.before.piece_status[call.index + 1] = Complete
    /\ \E j \in 0..(NPieces - 1) : Status(j) = InProgress

\* C12: reset_piece(i) sets a Pending or InProgress piece to Pending and leaves a
\* Complete piece and the counter as they are; a piece that is Complete stays
\* Complete through every call of pick_next_piece, reset_piece and
\* mark_piece_complete.
C12_ResetKeepsComplete ==
    call # None =>
        /\ \A j \in 0..(NPieces - 1) :
              call.before.piece_status[j + 1] = Complete => Status(j) = Complete
        /\ Called("reset_piece") =>
              /\ manager.downloaded_pieces = call.before.downloaded_pieces
              /\ OthersKept(call.index)
              /\ Status(call.index) =
                    IF call.before.piece_status[call.index + 1] = Complete
                    THEN Complete ELSE Pending

\* reset_piece applied to a Complete piece, another piece being in progress
C12_Witness ==
    /\ Called("reset_piece")
    /\ call.before.piece_status[call.index + 1] = Complete
    /\ \E j \in 0..(NPieces - 1) : Status(j) = InProgress

\* session s takes a step in which its assignment's log of Requests grows
SendsRequest(s) ==
    /\ Moves(s)
    /\ s.current_work # None
    /\ \E s2 \in BagToSet(sessions') :
          /\ s2.current_work # None
          /\ Len(s2.current_work[1].sent) > Len(s.current_work[1].sent)
          /\ s2 = [s EXCEPT !.current_work = s2.current_work, !.pc = s2.pc]
          /\ CopiesIn(s2, sessions') > CopiesIn(s2, sessions)

\* session s takes the step that calls pick_next_piece
Picks(s) == s.pc = "assign" /\ Moves(s)

\* C13: a session calls pick_next_piece and writes a Request only while it is
\* unchoked; it is choked until its loop reads an Unchoke.
C13_OnlyWhenUnchoked ==
    [][\A s \in Live :
          /\ (Picks(s) \/ SendsRequest(s)) => s.am_unchoked
          /\ s.pc \in {"connect", "handshake", "init"} => ~s.am_unchoked]_vars

\* a session choked in the middle of its assignment, requests still to be made
C13_Witness ==
    \E s \in Live :
        /\ ~s.am_unchoked
        /\ s.pc = "read"
        /\ s.current_work # None
        /\ s.current_work[1].sent # <<>>
        /\ s.current_work[1].requested < s.current_work[1].piece_length

\* the Requests of piece index up to byte upto, block after block
ExpectedRequests(index, size, upto) ==
    [k \in 1..CeilDiv(upto, BLOCK_MAX) |->
        [index |-> index,
         begin |-> (k - 1) * BLOCK_MAX,
         length |-> Min(BLOCK_MAX, size - (k - 1) * BLOCK_MAX)]]

\* C14: with a peer that stays unchoked and answers every Request with its block
\* the Requests written for piece i are those of begin 0, 16384, 2*16384, .. in
\* this order, each of length min(16384, size(i) - begin), none twice, and
\* CeilDiv(size(i), 16384) of them when the piece is whole.
C14_RequestsInOrder ==
    \A s \in Live :
        s.current_work # None =>
            LET w == s.current_work[1]
                size == calculate_piece_size(manager.torrent, w.piece_index)
            IN  /\ w.sent = ExpectedRequests(w.piece_index, size, w.requested)
                /\ w.requested <= size
                /\ s.pc \in {"verify", "write"} =>
                      Len(w.sent) = CeilDiv(size, BLOCK_MAX)

\* a piece of more blocks than the pipeline holds, all of it requested and received
C14_Witness ==
    \E s \in Live :
        /\ s.pc = "verify"
        /\ Len(s.current_work[1].sent) > PIPELINE_DEPTH

\* C15: the bytes requested and not yet received never exceed 5 * 16384.
C15_AtMostFiveInFlight ==
    \A s \in Live :
        s.current_work # None =>
            s.current_work[1].requested - s.current_work[1].downloaded
                <= PIPELINE_DEPTH * BLOCK_MAX

\* C16: a session that waits on a socket or on file I/O does not hold the manager
\* lock.  The session at "write" is in the awaits of the file write (open, seek,
\* write_all, sync_all), after the lock it took for the hash check.
C16_NoLockAcrossAwait ==
    \A s \in Live : s.pc = "write" => ~lock

Servable(req) ==
    /\ req.index < NPieces
    /\ Status(req.index) = Complete
    /\ req.begin + req.length <= calculate_piece_size(manager.torrent, req.index)

\* Piece{index, begin, piece[begin..begin+length]} with the piece read from disk
PieceFor(req) ==
    LET t == manager.torrent
        piece == read_piece_from_disk(t, disk, req.index,
                                      calculate_piece_size(t, req.index))[1]
    IN  [index |-> req.index,
         begin |-> req.begin,
         block |-> SubSeq(piece, req.begin \div Cell + 1, (req.begin + req.length) \div Cell)]

\* C18: on a Request for bytes of a Complete piece within the piece the session
\* writes the Piece message with those bytes; on any other Request it writes
\* nothing; in both cases it goes on.
C18_ServesCompletePieces ==
    [][\A s \in Live :
          (s.pc = "serve" /\ Moves(s))
              => \E s2 \in BagToSet(sessions') :
                    /\ CopiesIn(s2, sessions') > CopiesIn(s2, sessions)
                    /\ s2.pc = "read"
                    /\ s2.uploaded = IF Servable(s.serving[1])
                                     THEN Append(s.uploaded, PieceFor(s.serving[1]))
                                     ELSE s.uploaded]_vars

\* C19: for every message m, reading the bytes of serialize(m) gives m and takes
\* exactly those bytes from the stream.
C19_ReadInvertsSerialize ==
    Called("serialize, read") =>
        /\ call.parsed.ok
        /\ call.parsed.msg = call.msg
        /\ call.parsed.consumed = Len(call.bytes)

\* a Piece with a block, read back from a stream that goes on after it
C19_Witness ==
    /\ Called("serialize, read")
    /\ call.msg.type = "Piece"
    /\ call.msg.index = <<258, 772>>
    /\ Len(call.msg.block) = MaxBlock
    /\ Len(call.stream) > Len(call.bytes)

\* C20: for every frame the parser accepts, serializing the message read gives
\* the frame's bytes again.
C20_SerializeInvertsRead ==
    Called("read, serialize") =>
        call.bytes = SubSeq(call.stream, 1, call.parsed.consumed)

\* the stream holds exactly one frame: a length prefix, an id and the payload
\* the prefix announces
IsFrame(stream) ==
    /\ Len(stream) >= 5
    /\ SubSeq(stream, 1, 3) = <<0, 0, 0>>
    /\ stream[4] = Len(stream) - 4

\* C21: reading fails for a Have frame whose payload is not 4 bytes, a Request
\* frame whose payload is not 12 bytes, a Piece frame whose payload is shorter
\* than 8 bytes and a frame whose id is not in 0..7; a Bitfield frame is read
\* as Bitfield(payload) whatever the length of its payload.
C21_BadFramesRejected ==
    (Called("read") /\ IsFrame(call.stream)) =>
        LET id == call.stream[5]
            payload == SubSeq(call.stream, 6, Len(call.stream))
        IN  /\ (id = 4 /\ Len(payload) # 4) => ~call.parsed.ok
            /\ (id = 6 /\ Len(payload) # 12) => ~call.parsed.ok
            /\ (id = 7 /\ Len(payload) < 8) => ~call.parsed.ok
            /\ id \notin 0..7 => ~call.parsed.ok
            /\ id = 5 => /\ call.parsed.ok
                         /\ call.parsed.msg = Bitfield(payload)
                         /\ call.parsed.consumed = Len(call.stream)

\* a Piece frame with 7 bytes of payload was refused
C21_Witness ==
    /\ Called("read")
    /\ IsFrame(call.stream)
    /\ call.stream[5] = 7
    /\ Len(call.stream) = 5 + 7
    /\ ~call.parsed.ok

\* C22: when bytes [28..48] of the peer's handshake differ from the local
\* info-hash the session ends at once: it never gets to write Interested, the
\* ledger is as it was and the session holds no piece.  When they are equal
\* the session goes on to write Interested, with am_unchoked false and no work.
C22_HandshakeChecksInfoHash ==
    [][\A s \in Live :
          (s.pc = "check" /\ Moves(s)) =>
              IF SubSeq(s.response_buf, 29, 48) # calculate_info_hash(manager.torrent)
              THEN /\ Ends(s)
                   /\ manager' = manager
                   /\ s.current_work = None
              ELSE \E s2 \in BagToSet(sessions') :
                      /\ CopiesIn(s2, sessions') > CopiesIn(s2, sessions)
                      /\ s2.pc = "interested"
                      /\ ~s2.am_unchoked
                      /\ s2.current_work = None
                      /\ manager' = manager]_vars

\* one session is about to write Interested after a handshake of another
\* protocol that carries the hash, while another has read a handshake whose
\* info-hash differs in its last byte only
C22_Witness ==
    /\ \E s \in Live :
          /\ s.pc = "interested"
          /\ s.response_buf[2] # protocol_string[1]
    /\ \E s \in Live :
          /\ s.pc = "check"
          /\ SubSeq(s.response_buf, 29, 47)
                = SubSeq(calculate_info_hash(manager.torrent), 1, 19)
          /\ s.response_buf[48] # calculate_info_hash(manager.torrent)[20]

\* C23: the handshake serializes to exactly 68 bytes: 19, the 19 bytes of
\* "BitTorrent protocol", eight zero bytes, the 20 bytes of the info-hash and
\* the 20 bytes of the peer id, in that order.
C23_HandshakeLayout ==
    Called("as_bytes") =>
        /\ Len(call.bytes) = 68
        /\ call.bytes[1] = 19
        /\ SubSeq(call.bytes, 2, 20) =
              <<66, 105, 116, 84, 111, 114, 114, 101, 110, 116, 32,
                112, 114, 111, 116, 111, 99, 111, 108>>
        /\ SubSeq(call.bytes, 21, 28) = <<0, 0, 0, 0, 0, 0, 0, 0>>
        /\ SubSeq(call.bytes, 29, 48) = call.info_hash
        /\ SubSeq(call.bytes, 49, 68) = call.peer_id

\* the handshake of a torrent's info-hash and a generated peer id
C23_Witness ==
    /\ Called("as_bytes")
    /\ call.info_hash = calculate_info_hash(MultiFile)
    /\ call.peer_id = generate_peer_id(65)
    /\ call.info_hash # call.peer_id

MetainfoInvariants(file) ==
    LET total == IF file.length # None THEN file.length[1] ELSE SumSeq(file.files[1])
    IN  /\ (file.length = None) # (file.files = None)
        /\ file.pieces_len % 20 = 0
        /\ CeilDiv(total, file.piece_length) = file.pieces_len \div 20

\* C25: loading a metainfo that breaks the metainfo invariants returns an
\* error, and no manager is made from it.
C25_InvalidMetainfoRejected ==
    (Called("Torrent::read") /\ ~MetainfoInvariants(call.file)) =>
        /\ call.result = None
        /\ manager = None

\* the file that holds the cell g of the stream and the cell's place in it
RECURSIVE FileOf(_, _, _)
FileOf(fl, k, g) ==
    IF g < fl[k] \div Cell THEN <<k, g + 1>> ELSE FileOf(fl, k + 1, g - fl[k] \div Cell)

\* the cells of piece i as the files hold them now; None where a file ends
\* before the cell
CellsOnDisk(i) ==
    LET t == manager.torrent
        first == (i * t.piece_length) \div Cell
        last == Min((i + 1) * t.piece_length, total_length(t)) \div Cell
    IN  [c \in 1..(last - first) |->
            LET at == FileOf(files_list(t), 1, first + c - 1)
            IN  IF at[2] > Len(disk[at[1]]) THEN None ELSE Some(disk[at[1]][at[2]])]

\* the bytes on disk for piece i can be read and hash to the piece's hash
HashesRight(i) ==
    /\ \A c \in DOMAIN CellsOnDisk(i) : CellsOnDisk(i)[c] # None
    /\ Sha1([c \in DOMAIN CellsOnDisk(i) |-> CellsOnDisk(i)[c][1]])
          = manager.torrent.pieces[i + 1]

\* C26: after the startup verification piece i is Complete exactly when the
\* bytes the files hold for it hash to its hash, every other piece is Pending,
\* and the counter is the number of Complete pieces.
C26_VerifyMarksMatchingPieces ==
    (sup = "loop" /\ sessions = EmptyBag) =>
        /\ \A i \in 0..(NPieces - 1) :
              Status(i) = IF HashesRight(i) THEN Complete ELSE Pending
        /\ manager.downloaded_pieces
              = Cardinality({i \in 0..(NPieces - 1) : HashesRight(i)})

\* the data was right for all but the last piece, which the pre-allocation
\* filled with zeros: N - 1 pieces are Complete and the last is Pending
C26_Witness ==
    /\ sup = "loop"
    /\ manager.torrent = MultiFile
    /\ disk = [FullDisk(MultiFile) EXCEPT ![2] = <<FullDisk(MultiFile)[2][1], Zero>>]
    /\ manager.piece_status = <<Complete, Complete, Pending>>
    /\ manager.downloaded_pieces = 2

\* the (file, offset, length) of each span
Places(spans) ==
    [k \in 1..Len(spans) |->
        <<spans[k].file, spans[k].seek_pos_in_file,
          spans[k].end_in_piece - spans[k].start_in_piece>>]

\* C27: for every file layout and piece i, read_piece_from_disk(i) after a
\* write_piece_to_disk(i, data) that succeeded returns exactly data, and both
\* map the piece to the same (file, offset, length) spans, which cover the
\* piece.
C27_ReadInvertsWrite ==
    (Called("write_piece_to_disk, read_piece_from_disk") /\ call.write_ok) =>
        /\ call.result = Some(call.data)
        /\ Places(call.read_spans) = Places(call.write_spans)
        /\ SumSeq([k \in 1..Len(call.write_spans) |-> Places(call.write_spans)[k][3]])
              = Len(call.data) * Cell

\* a piece that spans three files, written to files that did not exist
C27_Witness ==
    /\ Called("write_piece_to_disk, read_piece_from_disk")
    /\ call.write_ok
    /\ call.torrent = ThreeFiles
    /\ call.before = NoFiles(ThreeFiles)
    /\ Len(call.write_spans) = 3
    /\ call.data = <<7, Zero, Corrupt>>
    /\ call.result = Some(call.data)

\* C28: a Bitfield read by a fresh session marks piece 8k + j exactly when
\* 8k + j < N and byte k of the bitfield has its bit of weight 2^(7 - j) set,
\* the most significant bit standing for j = 0; every other piece stays
\* unmarked, whatever the length of the bitfield.  The byte 129 alone marks
\* pieces 0 and 7 and no other.
C28_BitfieldMsbFirst ==
    Called("Bitfield") =>
        /\ Len(call.peer_has_pieces) = call.piece_count
        /\ \A k \in 0..MaxBitfield : \A j \in 0..7 :
              8 * k + j < call.piece_count =>
                 (call.peer_has_pieces[8 * k + j + 1]
                    <=> /\ k < Len(call.bitfield)
                        /\ (call.bitfield[k + 1] \div (2 ^ (7 - j))) % 2 = 1)
        /\ call.bitfield = <<129>> =>
              {p \in 0..(call.piece_count - 1) : call.peer_has_pieces[p + 1]}
                = {0, 7} \cap 0..(call.piece_count - 1)

\* the byte 129 on a torrent of more than 8 pieces: pieces 0 and 7 are marked
C28_Witness ==
    /\ Called("Bitfield")
    /\ call.bitfield = <<129>>
    /\ call.piece_count = MaxPieces
    /\ call.peer_has_pieces[1]
    /\ call.peer_has_pieces[8]
    /\ ~call.peer_has_pieces[9]

ChokedInProgress ==
    \E s \in Live : s.pc = "read" /\ s.current_work # None /\ ~s.am_unchoked

\* no session has a piece in work: each was completed or released
NoWork == \A s \in Live : s.current_work = None

\* C30: an assignment that is in progress while the peer chokes the session
\* comes to an end: the piece is completed, or the session times out and
\* releases it, whatever else the peer goes on sending.
C30_ChokedWorkEnds == ChokedInProgress ~> NoWork


\* the sessions in the file write of a verified piece, counted with multiplicity
Writers == BagCardinality([s \in {x \in Live : x.pc = "write"} |-> CopiesIn(s, sessions)])

\* C31: a session changes the ledger and writes a piece only while it holds the
\* manager lock: the lock is free when it takes the step that changes the
\* ledger, the lock is held by the one session that is in a piece write, so no
\* two piece writes overlap, and the supervisor finds is_complete() true only
\* while no piece write is in progress.
C31_LedgerAndWritesUnderLock ==
    /\ [](Writers <= 1 /\ (lock <=> Writers = 1))
    /\ [][/\ (sup # "startup" /\ manager' # manager) => ~lock
          /\ (sup # "startup" /\ disk' # disk) => (lock /\ Writers = 1 /\ Writers' = 0)
          /\ (sup = "loop" /\ sup' = "grace") => (Writers = 0 /\ is_complete(manager))]_vars

\* one session in the file write of its piece while another has its piece
\* assembled and waits for the lock to check it
C31_Witness ==
    \E s1 \in Live : \E s2 \in Live :
        /\ s1.pc = "write"
        /\ s2.pc = "verify"
        /\ lock
        /\ Some(Sha1(s2.current_work[1].piece_buffer))
              = get_piece_hash(manager.torrent, s2.current_work[1].piece_index)


\* session s is gone in this step and its cleanup has not run: the task was
\* dropped where it stood, by the runtime that shuts down or by a panic
Dropped(s) ==
    /\ CopiesIn(s, sessions') < CopiesIn(s, sessions)
    /\ BagCardinality(sessions') < BagCardinality(sessions)
    /\ s.pc # "cleanup" \/ sup' = "exited"

\* C32: when the task of a session that holds an assignment is dropped, the
\* ledger is what the cleanup path would have made it: the piece held is reset
\* (Pending unless it is Complete) and is not left InProgress.
C32_DropReleasesPiece ==
    [][\A s \in Live :
          (Dropped(s) /\ s.current_work # None)
              => /\ manager' = reset_piece(manager, s.current_work[1].piece_index)
                 /\ manager'.piece_status[s.current_work[1].piece_index + 1] # InProgress]_vars


\* the Piece message is for another index than the one in work, runs past the
\* end of the piece in work, or finds no piece in work
NotForWork(s, msg) ==
    \/ s.current_work = None
    \/ msg.index # s.current_work[1].piece_index
    \/ msg.begin + Len(msg.block) * Cell
          > calculate_piece_size(manager.torrent, s.current_work[1].piece_index)

\* C33: a Piece message for another index, past the end of the piece, or read
\* with no assignment is dropped: the assignment with its buffer, downloaded and
\* requested, the ledger and the files are as before, and the session goes on
\* in its loop.
C33_StrayBlockDropped ==
    [][\A s \in Live :
          (s.pc = "read" /\ Moves(s)) =>
              \A msg \in PieceMsgs(s) :
                  (NotForWork(s, msg) /\ RecvPiece(s, msg))
                      => /\ manager' = manager
                         /\ disk' = disk
                         /\ \E pc \in {"read", "assign", "pipeline"} :
                               sessions' = Replace(s, [s EXCEPT !.pc = pc])]_vars

\* a session with part of its piece received and Requests out, whose peer may
\* send a block of another index and a block that runs past the end
C33_Witness ==
    \E s \in Live :
        /\ s.pc = "read"
        /\ s.current_work # None
        /\ s.current_work[1].downloaded > 0
        /\ s.current_work[1].requested > s.current_work[1].downloaded
        /\ \E msg \in PieceMsgs(s) : msg.index # s.current_work[1].piece_index
        /\ \E msg \in PieceMsgs(s) :
              /\ msg.index = s.current_work[1].piece_index
              /\ NotForWork(s, msg)


\* s2 is what a session has become in this step
Became(s2) == CopiesIn(s2, sessions') > CopiesIn(s2, sessions)

\* C34: a Choke read by an unchoked session makes it choked and changes nothing
\* else: the assignment with its buffer and counters, the peer's availability
\* and the ledger, where the piece in work stays InProgress, are as before, and
\* the session waits for the next message.
C34_ChokeOnlyChokes ==
    [][\A s \in Live :
          (s.pc = "read" /\ s.am_unchoked /\ Moves(s)) =>
              \A s2 \in BagToSet(sessions') :
                  (Became(s2) /\ ~s2.am_unchoked)
                      => /\ s2 = [s EXCEPT !.am_unchoked = FALSE]
                         /\ manager' = manager
                         /\ disk' = disk
                         /\ s.current_work # None =>
                               manager'.piece_status[s.current_work[1].piece_index + 1]
                                  = InProgress]_vars

\* a session choked with half of its piece received: the piece is still its
\* assignment and InProgress
C34_Witness ==
    \E s \in Live :
        /\ ~s.am_unchoked
        /\ s.pc = "read"
        /\ s.current_work # None
        /\ s.current_work[1].downloaded > 0
        /\ s.current_work[1].downloaded < s.current_work[1].piece_length
        /\ Status(s.current_work[1].piece_index) = InProgress


\* session s ends in this step or leaves its loop for the cleanup
Fails(s) ==
    /\ Moves(s)
    /\ \/ BagCardinality(sessions') < BagCardinality(sessions)
       \/ s.pc # "cleanup" /\ Became([s EXCEPT !.pc = "cleanup"])

\* C35: when a session fails (connect, handshake, read, decode, timeout, write
\* or send error) every other session is as it was, the ledger is as it was
\* but for the piece the failed session holds, and the supervisor goes on.
C35_FailureIsConfined ==
    [][\A s \in Live :
          Fails(s) =>
              /\ sessions' = Remove(s) \/ sessions' = Replace(s, [s EXCEPT !.pc = "cleanup"])
              /\ sup' = sup
              /\ mode' = mode
              /\ manager'.downloaded_pieces = manager.downloaded_pieces
              /\ \A i \in 0..(NPieces - 1) :
                    ~Holds(s, i) => manager'.piece_status[i + 1] = Status(i)]_vars

\* a session in its cleanup after an error, holding a piece, while another
\* session has a piece of its own in work
C35_Witness ==
    \E s1 \in Live : \E s2 \in Live :
        /\ s1.pc = "cleanup"
        /\ s2.pc # "cleanup"
        /\ s2.current_work # None
        /\ s1.current_work[1].piece_index # s2.current_work[1].piece_index
        /\ Status(s2.current_work[1].piece_index) = InProgress


\* the assignment of piece i as the claim has it at its start
FreshWork(i) ==
    LET size == calculate_piece_size(manager.torrent, i)
    IN  [piece_index |-> i,
         piece_buffer |-> [c \in 1..(size \div Cell) |-> Zero],
         downloaded |-> 0,
         requested |-> 0,
         piece_length |-> size,
         sent |-> <<>>]

\* C36: an unchoked session with no assignment that gets None from
\* pick_next_piece stays in its loop; when it then reads a Have or Bitfield that
\* changes what its peer has, the same iteration goes to the work assignment;
\* an assignment that finds a Pending piece the peer has takes the smallest one
\* with a zero-filled buffer of size(i), downloaded = 0 and requested = 0 and
\* goes to the pipeline, whose first Request is for begin 0.
C36_IdleSessionPicksUpLater ==
    [][\A s \in Live :
          Moves(s) =>
              /\ (s.pc = "assign" /\ Eligible(s.peer_has_pieces) = {})
                    => /\ sessions' = Replace(s, [s EXCEPT !.pc = "read"])
                       /\ manager' = manager
              /\ (s.pc = "read" /\ s.am_unchoked /\ s.current_work = None)
                    => \A s2 \in BagToSet(sessions') :
                          (Became(s2) /\ s2.peer_has_pieces # s.peer_has_pieces)
                              => s2 = [s EXCEPT !.pc = "assign",
                                                !.peer_has_pieces = s2.peer_has_pieces]
              /\ (s.pc = "assign" /\ Eligible(s.peer_has_pieces) # {})
                    => LET ok == Eligible(s.peer_has_pieces)
                           i == CHOOSE x \in ok : \A y \in ok : x <= y
                       IN  /\ sessions' = Replace(s, [s EXCEPT !.pc = "pipeline",
                                                              !.current_work = Some(FreshWork(i))])
                           /\ manager'.piece_status[i + 1] = InProgress
              /\ (s.pc = "pipeline" /\ s.current_work[1].sent = <<>>)
                    => \A s2 \in BagToSet(sessions') :
                          (Became(s2) /\ s2.current_work # None
                                      /\ s2.current_work[1].sent # <<>>)
                              => /\ s2.current_work[1].sent[1].begin = 0
                                 /\ s2.current_work[1].sent[1].index
                                       = s.current_work[1].piece_index]_vars

\* an unchoked session that found no work waits for its next message, while
\* piece 0, which its peer has not announced, is Pending
C36_Witness ==
    \E s \in Live :
        /\ s.pc = "read"
        /\ s.am_unchoked
        /\ s.current_work = None
        /\ Eligible(s.peer_has_pieces) = {}
        /\ ~s.peer_has_pieces[1]
        /\ Status(0) = Pending


\* where file k starts in the stream
FileStart(fl, k) == SumSeq(SubSeq(fl, 1, k - 1))

\* the files that share a byte with the stream range [P0, P1), in metainfo order
RECURSIVE Overlapping(_, _, _, _)
Overlapping(fl, k, P0, P1) ==
    IF k > Len(fl) THEN <<>>
    ELSE (IF \E g \in P0..(P1 - 1) : FileStart(fl, k) <= g /\ g < FileStart(fl, k) + fl[k]
          THEN <<k>> ELSE <<>>)
         \o Overlapping(fl, k + 1, P0, P1)

\* the files of the spans that hold at least one byte
RECURSIVE FilesWithBytes(_)
FilesWithBytes(spans) ==
    IF spans = <<>> THEN <<>>
    ELSE (IF Head(spans).end_in_piece > Head(spans).start_in_piece
          THEN <<Head(spans).file>> ELSE <<>>)
         \o FilesWithBytes(Tail(spans))

\* the slices are [0, e1), [e1, e2), .. up to size, each at the file offset
\* max(P0, F0) - F0 and within its file, over the overlapping files in order
SpansCover(spans, fl, P0, size) ==
    /\ spans # <<>>
    /\ spans[1].start_in_piece = 0
    /\ spans[Len(spans)].end_in_piece = size
    /\ \A k \in 1..(Len(spans) - 1) : spans[k + 1].start_in_piece = spans[k].end_in_piece
    /\ \A k \in 1..Len(spans) :
          LET F0 == FileStart(fl, spans[k].file)
          IN  /\ spans[k].start_in_piece <= spans[k].end_in_piece
              /\ spans[k].seek_pos_in_file = (IF P0 > F0 THEN P0 ELSE F0) - F0
              /\ spans[k].seek_pos_in_file + (spans[k].end_in_piece - spans[k].start_in_piece)
                    <= fl[spans[k].file]
              /\ P0 + spans[k].start_in_piece = F0 + spans[k].seek_pos_in_file
    /\ FilesWithBytes(spans) = Overlapping(fl, 1, P0, P0 + size)

\* C37: for every layout and piece i the overlap loop of the write and of the
\* read yields slices of the piece that follow one another from 0 to size(i),
\* so they are disjoint and cover [0, size(i)), over the files that overlap the
\* piece in metainfo order, each at file offset max(P0, F0) - F0; with files of
\* 5, 7 and 4 bytes and pieces of 6 bytes, piece 0 is a[0..5] + b[0..1], piece
\* 1 is b[1..7] and piece 2 is c[0..4].
C37_SpansCoverPiece ==
    Called("spans") =>
        LET P0 == call.index * call.torrent.piece_length
        IN  /\ P0 + call.piece_size <= SumSeq(call.files)
            /\ SpansCover(call.write_spans, call.files, P0, call.piece_size)
            /\ SpansCover(call.read_spans, call.files, P0, call.piece_size)
            /\ (call.files = <<5, 7, 4>> /\ call.torrent.piece_length = 6) =>
                  Places(call.write_spans)
                     = CASE call.index = 0 -> <<<<1, 0, 5>>, <<2, 0, 1>>>>
                         [] call.index = 1 -> <<<<2, 1, 6>>>>
                         [] call.index = 2 -> <<<<3, 0, 4>>>>

\* piece 0 of the files of 5, 7 and 4 bytes cut into pieces of 6 bytes: all of
\* the first file and the first byte of the second
C37_Witness ==
    /\ Called("spans")
    /\ call.files = <<5, 7, 4>>
    /\ call.torrent.piece_length = 6
    /\ call.index = 0
    /\ Places(call.write_spans) = <<<<1, 0, 5>>, <<2, 0, 1>>>>
    /\ Places(call.read_spans) = Places(call.write_spans)


\* C38: a Have with index < N makes exactly that piece available and a Have
\* with index >= N makes nothing available; either way the other entries, the
\* assignment, the ledger and the files are as before and the session goes on
\* in its loop.
C38_HaveSetsOneIndex ==
    [][\A s \in Live :
          (s.pc = "read" /\ Moves(s)) =>
              \A index \in HaveIndexes :
                  RecvHave(s, index) =>
                      \E s2 \in BagToSet(sessions') :
                          /\ sessions' = Replace(s, s2)
                          /\ s2 = [s EXCEPT !.pc = s2.pc,
                                            !.peer_has_pieces = s2.peer_has_pieces]
                          /\ s2.pc \in {"read", "assign", "pipeline"}
                          /\ s2.peer_has_pieces
                                = [p \in 1..NPieces |->
                                     IF index < NPieces /\ p = index + 1
                                     THEN TRUE ELSE s.peer_has_pieces[p]]
                          /\ manager' = manager
                          /\ disk' = disk]_vars

\* of three pieces the peer has announced piece 0 alone; the session works on
\* it and piece 1 waits for a peer that has it
C38_Witness ==
    \E s \in Live :
        /\ NPieces = 3
        /\ s.peer_has_pieces = <<TRUE, FALSE, FALSE>>
        /\ Holds(s, 0)
        /\ Status(1) = Pending
        /\ NPieces \in HaveIndexes


\* C39: whenever the ledger can be observed (the manager lock is free), every
\* InProgress piece is the assignment of exactly one live session and every
\* live session's assignment is InProgress in the ledger.
C39_InProgressHasOneHolder ==
    ~lock =>
        /\ \A i \in 0..(NPieces - 1) : Status(i) = InProgress => Holders(i) = 1
        /\ \A s \in Live :
              s.current_work # None => Status(s.current_work[1].piece_index) = InProgress

\* the bytes of the buffer that accepted blocks have covered: a block never
\* holds a zero cell in the model, so these are the cells that are not zero
Covered(w) == Cardinality({c \in 1..Len(w.piece_buffer) : w.piece_buffer[c] # Zero}) * Cell

\* C40: downloaded is the number of distinct bytes of the buffer that accepted
\* blocks have covered, so it never exceeds the piece size, and the hash check
\* is reached exactly with every byte of the buffer received.
C40_DownloadedCountsDistinctBytes ==
    \A s \in Live :
        s.current_work # None =>
            /\ s.current_work[1].downloaded = Covered(s.current_work[1])
            /\ s.current_work[1].downloaded <= s.current_work[1].piece_length
            /\ s.pc = "verify" => Covered(s.current_work[1]) = s.current_work[1].piece_length

====
